---- MODULE Spec2Model ----
(***************************************************************************)
(* bevy_symbios_texture: the bounded texture-generation scheduler          *)
(* (src/src/async_gen.rs) and the dimension/buffer contract of the five    *)
(* material generators (src/src/generator.rs, bark.rs, rock.rs, ground.rs, *)
(* leaf.rs, twig.rs).                                                      *)
(*                                                                         *)
(* Requests are numbered 1, 2, ... in submission order.  Every per-request *)
(* variable is a sequence indexed by that number.  Pixel buffers are       *)
(* represented by their length in bytes.                                   *)
(***************************************************************************)
EXTENDS Integers, Sequences, FiniteSets, TLC

(* ----------------------------- constants ------------------------------ *)

\* async_gen.rs:28
MAX_GENERATION_THREADS == 4

\* generator.rs:80
MAX_DIMENSION == 4096

(* ------------------------------- bounds ------------------------------- *)

\* Requests submitted in Spec.
MaxReq == 2

\* PoolSpec submits MAX_GENERATION_THREADS + ExtraJobs requests.
ExtraJobs == 1

\* GenSpec tries every dimension 0..MaxSmallDim and the values around
\* MAX_DIMENSION.
MaxSmallDim == 3

(* ------------------------------ generators ---------------------------- *)

Kinds == {"Bark", "Rock", "Ground", "Leaf", "Twig"}

\* TextureError::ZeroDimension { width, height }
ZeroDimension(width, height) ==
    [tag |-> "ZeroDimension", width |-> width, height |-> height]

\* TextureError::DimensionTooLarge { width, height, max }
DimensionTooLarge(width, height, max) ==
    [tag |-> "DimensionTooLarge", width |-> width, height |-> height, max |-> max]

\* Ok(()) of validate_dimensions
OkUnit == [tag |-> "Ok"]

\* Ok(TextureMap { albedo, normal, roughness, width, height }); the three
\* buffers are given by their lengths.
TextureMap(albedo, normal, roughness, width, height) ==
    [tag |-> "Ok", albedo |-> albedo, normal |-> normal, roughness |-> roughness,
     width |-> width, height |-> height]

\* A mutant of validate_dimensions: the size test uses >= instead of >.
validate_dimensions_ge(width, height) ==
    IF width = 0 \/ height = 0
    THEN ZeroDimension(width, height)
    ELSE IF width >= MAX_DIMENSION \/ height >= MAX_DIMENSION
         THEN DimensionTooLarge(width, height, MAX_DIMENSION)
         ELSE OkUnit

validate_dimensions(width, height) ==
    IF width = 0 \/ height = 0
    THEN ZeroDimension(width, height)
    ELSE IF width > MAX_DIMENSION \/ height > MAX_DIMENSION
         THEN DimensionTooLarge(width, height, MAX_DIMENSION)
         ELSE OkUnit

\* A mutant of height_to_normal_len: one byte per texel instead of four.
height_to_normal_len_1(width, height) ==
    IF width = 0 \/ height = 0 THEN 0 ELSE width * height

\* Length of the Vec<u8> height_to_normal returns: empty for a zero
\* dimension, else vec![0u8; w * h * 4].
height_to_normal_len(width, height) ==
    IF width = 0 \/ height = 0 THEN 0 ELSE width * height * 4

\* BarkGenerator::generate
bark_generate(width, height) ==
    LET v == validate_dimensions(width, height)
        n == width * height
    IN  IF v.tag # "Ok" THEN v
        ELSE TextureMap(n * 4, height_to_normal_len(width, height), n * 4,
                        width, height)

\* RockGenerator::generate
rock_generate(width, height) ==
    LET v == validate_dimensions(width, height)
        n == width * height
    IN  IF v.tag # "Ok" THEN v
        ELSE TextureMap(n * 4, height_to_normal_len(width, height), n * 4,
                        width, height)

\* GroundGenerator::generate
ground_generate(width, height) ==
    LET v == validate_dimensions(width, height)
        n == width * height
    IN  IF v.tag # "Ok" THEN v
        ELSE TextureMap(n * 4, height_to_normal_len(width, height), n * 4,
                        width, height)

\* LeafGenerator::generate
leaf_generate(width, height) ==
    LET v == validate_dimensions(width, height)
        n == width * height
    IN  IF v.tag # "Ok" THEN v
        ELSE TextureMap(n * 4, height_to_normal_len(width, height), n * 4,
                        width, height)

\* TwigGenerator::generate
twig_generate(width, height) ==
    LET v == validate_dimensions(width, height)
        n == width * height
    IN  IF v.tag # "Ok" THEN v
        ELSE TextureMap(n * 4, height_to_normal_len(width, height), n * 4,
                        width, height)

\* How a generator turns its height field into the normal map: whether
\* dilate_heights is called on the heights first, and the BoundaryMode
\* argument of the height_to_normal call ("None": the call passes
\* heights, width, height and strength only).
NormalPass(dilated, boundary) == [dilated |-> dilated, boundary |-> boundary]

\* BarkGenerator::generate: height_to_normal(.., BoundaryMode::Wrap)
bark_normal_pass == NormalPass(FALSE, "Wrap")

\* RockGenerator::generate: height_to_normal(.., BoundaryMode::Wrap)
rock_normal_pass == NormalPass(FALSE, "Wrap")

\* GroundGenerator::generate: height_to_normal(&heights, width, height,
\* c.normal_strength)
ground_normal_pass == NormalPass(FALSE, "None")

\* LeafGenerator::generate: heights start at 0.5, opaque texels get
\* s.height, then height_to_normal(&heights, width, height,
\* self.config.normal_strength)
leaf_normal_pass == NormalPass(FALSE, "None")

\* TwigGenerator::generate: height_to_normal(&heights, width, height,
\* c.leaf.normal_strength)
twig_normal_pass == NormalPass(FALSE, "None")

\* The normal pass of generate, dispatched on the generator type.
normal_pass(kind) ==
    CASE kind = "Bark"   -> bark_normal_pass
      [] kind = "Rock"   -> rock_normal_pass
      [] kind = "Ground" -> ground_normal_pass
      [] kind = "Leaf"   -> leaf_normal_pass
      [] kind = "Twig"   -> twig_normal_pass

\* TextureGenerator::generate, dispatched on the generator type.
generate(kind, width, height) ==
    CASE kind = "Bark"   -> bark_generate(width, height)
      [] kind = "Rock"   -> rock_generate(width, height)
      [] kind = "Ground" -> ground_generate(width, height)
      [] kind = "Leaf"   -> leaf_generate(width, height)
      [] kind = "Twig"   -> twig_generate(width, height)

(* ------------------------------ asset sink ---------------------------- *)

\* make_image: the Image built from one buffer; both sampler axes get the
\* same address mode.
make_image(data, width, height, format, address_mode, mipmap_mode) ==
    [base_len |-> data, width |-> width, height |-> height, format |-> format,
     address_mode_u |-> address_mode, address_mode_v |-> address_mode,
     mipmap_mode |-> mipmap_mode]

\* GeneratedHandles { albedo, normal, roughness }: a handle stands for the
\* image it was returned for.
map_to_images(map) ==
    [albedo    |-> make_image(map.albedo, map.width, map.height,
                              "Rgba8UnormSrgb", "Repeat", "Srgb"),
     normal    |-> make_image(map.normal, map.width, map.height,
                              "Rgba8Unorm", "Repeat", "Normal"),
     roughness |-> make_image(map.roughness, map.width, map.height,
                              "Rgba8Unorm", "Repeat", "Linear")]

map_to_images_card(map) ==
    [albedo    |-> make_image(map.albedo, map.width, map.height,
                              "Rgba8UnormSrgb", "ClampToEdge", "Srgb"),
     normal    |-> make_image(map.normal, map.width, map.height,
                              "Rgba8Unorm", "ClampToEdge", "Normal"),
     roughness |-> make_image(map.roughness, map.width, map.height,
                              "Rgba8Unorm", "ClampToEdge", "Linear")]

(* ------------------------------ scheduler ----------------------------- *)

VARIABLES
    POOL,       \* gen_pool's OnceLock: "uninit" | "built"
    queue,      \* jobs spawned on the pool and not yet taken by a worker
    req,        \* per request: the closure's generator kind, width, height
    is_card,    \* per request: PendingTexture.is_card
    cancelled,  \* per request: the shared AtomicBool
    chan,       \* per request: buffer of the sync_channel(1)
    job,        \* per request: "queued" | "running" | "done" | "skipped" | "panicked"
    handle,     \* per request: PendingTexture is "pending" | "dropped" | "removed"
    ready,      \* per request: the entity's TextureReady component, or NoReady
    log,        \* per request: the errors poll_texture_tasks logged
    runs,       \* per request: how many times the closure called generate
    aborted,    \* the process was aborted
    gen_in,     \* GenSpec: the generator and dimensions of a direct generate call
    gen_out,    \* GenSpec: what that call returned
    mip,        \* MipSpec: the locals of a generate_mipmaps call
    once        \* OnceSpec: the threads inside gen_pool() and the pools built

sched_vars == <<POOL, queue, req, is_card, cancelled, chan, job, handle, ready,
                log, runs, aborted>>

\* The variables of the specifications that follow one call of one function.
aux_vars == <<mip, once>>

\* The variables of the direct calls, which no scheduler step touches.
call_vars == <<gen_in, gen_out, aux_vars>>

vars == <<sched_vars, call_vars>>

Reqs == 1 .. Len(req)

NoReady == [tag |-> "None"]

\* TextureReady(handles)
TextureReady(handles) == [tag |-> "TextureReady", handles |-> handles]

\* The Sender lives in the job closure: it is dropped when the closure
\* returns or unwinds.
TxAlive(r) == job[r] \in {"queued", "running"}

\* The Receiver lives in PendingTexture.
RxAlive(r) == handle[r] = "pending"

\* Jobs inside f().
Executing == {r \in Reqs : job[r] = "running"}

\* A mutant of Occupied: the worker of a job that found its flag set is
\* not released.
OccupiedKeepsSkipped == {r \in Reqs : job[r] \in {"running", "panicked", "skipped"}}

\* Workers that cannot take a job: one per running job, and one per job
\* that panicked (that worker goes on to abort the process).
Occupied == {r \in Reqs : job[r] \in {"running", "panicked"}}

NoCall == [tag |-> "None"]

SchedInit ==
    /\ POOL = "uninit"
    /\ queue = <<>>
    /\ req = <<>>
    /\ is_card = <<>>
    /\ cancelled = <<>>
    /\ chan = <<>>
    /\ job = <<>>
    /\ handle = <<>>
    /\ ready = <<>>
    /\ log = <<>>
    /\ runs = <<>>
    /\ aborted = FALSE

\* OnceSpec runs MaxThreads threads, each calling spawn_task MaxSubmits
\* times.
MaxThreads == 3
MaxSubmits == 2

Threads == 1 .. MaxThreads

\* No thread has called gen_pool() and no pool exists.  built lists the
\* pools ThreadPoolBuilder::build returned, value is the pool the OnceLock
\* holds (an index into built, 0 while it is empty).
OnceIdle ==
    [built |-> <<>>,
     value |-> 0,
     thr |-> [t \in Threads |-> [pc |-> "idle", pool |-> 0, spawned |-> <<>>]]]

\* No function is being followed.
AuxInit ==
    /\ mip = NoCall
    /\ once = OnceIdle

Init ==
    /\ SchedInit
    /\ gen_in = NoCall
    /\ gen_out = NoCall
    /\ AuxInit

\* gen_pool(): POOL.get_or_init(build a pool of MAX_GENERATION_THREADS).
gen_pool == "built"

\* spawn_task(f, is_card): a fresh flag and channel, the closure spawned on
\* gen_pool(), and the PendingTexture returned to the caller.
spawn_task(f, card) ==
    /\ ~aborted
    /\ POOL' = gen_pool
    /\ queue' = Append(queue, Len(req) + 1)
    /\ req' = Append(req, f)
    /\ is_card' = Append(is_card, card)
    /\ cancelled' = Append(cancelled, FALSE)
    /\ chan' = Append(chan, <<>>)
    /\ job' = Append(job, "queued")
    /\ handle' = Append(handle, "pending")
    /\ ready' = Append(ready, NoReady)
    /\ log' = Append(log, <<>>)
    /\ runs' = Append(runs, 0)
    /\ UNCHANGED <<aborted, call_vars>>

\* The closure each constructor builds: generator.generate(width, height).
Closure(kind, width, height) == [kind |-> kind, width |-> width, height |-> height]

\* PendingTexture::bark
bark(width, height) == spawn_task(Closure("Bark", width, height), FALSE)

\* PendingTexture::rock
rock(width, height) == spawn_task(Closure("Rock", width, height), FALSE)

\* PendingTexture::ground
ground(width, height) == spawn_task(Closure("Ground", width, height), FALSE)

\* PendingTexture::leaf
leaf(width, height) == spawn_task(Closure("Leaf", width, height), TRUE)

\* A mutant of twig: the constructor passes is_card = false.
twig_as_tile(width, height) == spawn_task(Closure("Twig", width, height), FALSE)

\* PendingTexture::twig
twig(width, height) == spawn_task(Closure("Twig", width, height), TRUE)

\* A mutant of DropHandle: dropping the handle also stops a job that is
\* inside f() and releases its worker.
DropHandleKillsJob(r) ==
    /\ ~aborted
    /\ handle[r] = "pending"
    /\ handle' = [handle EXCEPT ![r] = "dropped"]
    /\ cancelled' = [cancelled EXCEPT ![r] = TRUE]
    /\ chan' = [chan EXCEPT ![r] = <<>>]
    /\ job' = [job EXCEPT ![r] = IF @ = "running" THEN "skipped" ELSE @]
    /\ UNCHANGED <<POOL, queue, req, is_card, ready, log, runs, aborted, call_vars>>

\* A mutant of DropHandle: one flag shared by every request, so that a drop
\* sets them all.
DropHandleSetsAll(r) ==
    /\ ~aborted
    /\ handle[r] = "pending"
    /\ handle' = [handle EXCEPT ![r] = "dropped"]
    /\ cancelled' = [q \in Reqs |-> TRUE]
    /\ chan' = [chan EXCEPT ![r] = <<>>]
    /\ UNCHANGED <<POOL, queue, req, is_card, job, ready, log, runs, aborted, call_vars>>

\* Drop for PendingTexture, run when the caller drops the component or
\* despawns its entity: the flag is set and the Receiver goes away with
\* whatever its buffer holds.
DropHandle(r) ==
    /\ ~aborted
    /\ handle[r] = "pending"
    /\ handle' = [handle EXCEPT ![r] = "dropped"]
    /\ cancelled' = [cancelled EXCEPT ![r] = TRUE]
    /\ chan' = [chan EXCEPT ![r] = <<>>]
    /\ UNCHANGED <<POOL, queue, req, is_card, job, ready, log, runs, aborted, call_vars>>

\* A mutant of WorkerFree: a worker for every job, as with a thread spawned
\* per request.
WorkerPerJob == TRUE

\* The pool runs at most num_threads(MAX_GENERATION_THREADS) jobs at once.
WorkerFree == Cardinality(Occupied) < MAX_GENERATION_THREADS

\* A mutant of FlagClear: the closure does not test the flag.
FlagIgnored(r) == TRUE

\* if !flag.load(Relaxed): the closure goes on to f() only with the flag
\* clear.
FlagClear(r) == ~cancelled[r]

\* A mutant of JobStart: a free worker takes any queued job.
JobStartAny(r) ==
    /\ ~aborted
    /\ \E i \in 1 .. Len(queue) :
          /\ r = queue[i]
          /\ queue' = SubSeq(queue, 1, i - 1) \o SubSeq(queue, i + 1, Len(queue))
    /\ WorkerFree
    /\ IF FlagClear(r)
       THEN /\ job' = [job EXCEPT ![r] = "running"]
            /\ runs' = [runs EXCEPT ![r] = @ + 1]
       ELSE /\ job' = [job EXCEPT ![r] = "skipped"]
            /\ UNCHANGED runs
    /\ UNCHANGED <<POOL, req, is_card, cancelled, chan, handle, ready, log, aborted, call_vars>>

\* A free worker takes the oldest queued job and runs the closure up to the
\* flag test: with the flag set the closure returns at once (dropping tx),
\* otherwise it enters f().
JobStart(r) ==
    /\ ~aborted
    /\ queue # <<>>
    /\ r = Head(queue)
    /\ WorkerFree
    /\ queue' = Tail(queue)
    /\ IF FlagClear(r)
       THEN /\ job' = [job EXCEPT ![r] = "running"]
            /\ runs' = [runs EXCEPT ![r] = @ + 1]
       ELSE /\ job' = [job EXCEPT ![r] = "skipped"]
            /\ UNCHANGED runs
    /\ UNCHANGED <<POOL, req, is_card, cancelled, chan, handle, ready, log, aborted, call_vars>>

\* tx.send(v).ok(): the value enters the one-slot buffer when the Receiver
\* is alive; with the Receiver gone send returns Err, which .ok() discards.
Send(r, v) == IF RxAlive(r) THEN Append(chan[r], v) ELSE chan[r]

\* A mutant of JobFinish: the result is put on the channel while the
\* closure is still inside f(), which returns in a later step.
JobFinishSendsEarly(r) ==
    /\ ~aborted
    /\ job[r] = "running"
    /\ IF RxAlive(r) /\ chan[r] = <<>>
       THEN /\ chan' = [chan EXCEPT ![r] = <<generate(req[r].kind, req[r].width, req[r].height)>>]
            /\ UNCHANGED job
       ELSE /\ job' = [job EXCEPT ![r] = "done"]
            /\ UNCHANGED chan
    /\ UNCHANGED <<POOL, queue, req, is_card, cancelled, handle, ready, log, runs, aborted, call_vars>>

\* mpsc::sync_channel(1): send waits while the Receiver is alive and the
\* one-slot buffer is full.
SendBlocks(r) == RxAlive(r) /\ Len(chan[r]) >= 1

\* A mutant of JobFinish: the closure sends its result twice before it
\* ends.
JobFinishSendsTwice(r) ==
    /\ ~aborted
    /\ job[r] = "running"
    /\ ~SendBlocks(r)
    /\ chan' = [chan EXCEPT ![r] = Send(r, generate(req[r].kind, req[r].width, req[r].height))]
    /\ job' = [job EXCEPT ![r] = IF RxAlive(r) THEN "running" ELSE "done"]
    /\ UNCHANGED <<POOL, queue, req, is_card, cancelled, handle, ready, log, runs, aborted, call_vars>>

\* f() returns, its result is sent, the closure ends and tx is dropped.
JobFinish(r) ==
    /\ ~aborted
    /\ job[r] = "running"
    /\ ~SendBlocks(r)
    /\ chan' = [chan EXCEPT ![r] = Send(r, generate(req[r].kind, req[r].width, req[r].height))]
    /\ job' = [job EXCEPT ![r] = "done"]
    /\ UNCHANGED <<POOL, queue, req, is_card, cancelled, handle, ready, log, runs, aborted, call_vars>>

\* f() panics on its worker, somewhere past validate_dimensions: unwinding
\* drops the closure and tx with it, nothing is sent.
JobPanic(r) ==
    /\ ~aborted
    /\ job[r] = "running"
    /\ validate_dimensions(req[r].width, req[r].height) = OkUnit
    /\ job' = [job EXCEPT ![r] = "panicked"]
    /\ UNCHANGED <<POOL, queue, req, is_card, cancelled, chan, handle, ready, log, runs, aborted, call_vars>>

\* gen_pool builds the pool without a panic_handler: rayon hands a panic
\* that escapes a spawned job to the pool's panic handler and, with none
\* set, aborts the process.
PanicAbort ==
    /\ ~aborted
    /\ \E r \in Reqs : job[r] = "panicked"
    /\ aborted' = TRUE
    /\ UNCHANGED <<POOL, queue, req, is_card, cancelled, chan, job, handle, ready, log, runs, call_vars>>

Empty == [tag |-> "Empty"]

Disconnected == [tag |-> "Disconnected"]

\* Receiver::try_recv: the buffered value if there is one, else
\* Disconnected when the Sender is gone, else Empty.  It never waits.
try_recv(r) ==
    IF chan[r] # <<>> THEN Head(chan[r])
    ELSE IF TxAlive(r) THEN Empty ELSE Disconnected

\* A mutant of RecvReturns: a blocking recv(), which returns only once a
\* value was sent or the Sender is gone.
RecvWaits(r) == chan[r] # <<>> \/ ~TxAlive(r)

\* Whether the receive of poll_texture_tasks returns now (try_recv always
\* does).
RecvReturns(r) == TRUE

\* The sampler choice of the Ok(Ok(map)) arm.
Upload(r, map) == IF is_card[r] THEN map_to_images_card(map) ELSE map_to_images(map)

Pending == {r \in Reqs : handle[r] = "pending"}

\* The match of poll_texture_tasks on one entity's try_recv result, as the
\* values the entity has after the pass.  remove::<PendingTexture>() drops
\* the component, which sets the flag and drops the Receiver.
\* A mutant of PollHandle: the error arms do not remove PendingTexture.
PollHandleKeepsFailed(r) ==
    IF r \in Pending /\ try_recv(r).tag = "Ok" THEN "removed" ELSE handle[r]

\* A mutant of PollHandle: the Ok(Ok(map)) arm does not remove
\* PendingTexture.
PollHandleKeepsReady(r) ==
    IF r \in Pending /\ try_recv(r) # Empty /\ try_recv(r).tag # "Ok" THEN "removed"
    ELSE handle[r]

PollHandle(r) ==
    IF r \in Pending /\ try_recv(r) # Empty THEN "removed" ELSE handle[r]

\* A mutant of PollReady: every received result, and a disconnected
\* channel, is promoted, an error to the handles of an empty map.
PollReadyAlways(r) ==
    IF r \in Pending /\ try_recv(r) # Empty
    THEN IF try_recv(r).tag = "Ok"
         THEN TextureReady(Upload(r, try_recv(r)))
         ELSE TextureReady(Upload(r, TextureMap(0, 0, 0, 0, 0)))
    ELSE ready[r]

PollReady(r) ==
    IF r \in Pending /\ try_recv(r).tag = "Ok" THEN TextureReady(Upload(r, try_recv(r)))
    ELSE ready[r]

PollLog(r) ==
    IF r \notin Pending THEN log[r]
    ELSE CASE try_recv(r).tag \in {"ZeroDimension", "DimensionTooLarge"} ->
                  Append(log[r], "Texture generation failed")
           [] try_recv(r) = Disconnected ->
                  Append(log[r], "Texture generation thread panicked")
           [] OTHER -> log[r]

\* poll_texture_tasks: one pass over every entity that has a
\* PendingTexture.  The queued commands touch only the visited entity, so
\* they are applied here, at the visit.
poll_texture_tasks ==
    /\ ~aborted
    /\ \A r \in Pending : RecvReturns(r)
    /\ handle' = [r \in Reqs |-> PollHandle(r)]
    /\ ready' = [r \in Reqs |-> PollReady(r)]
    /\ log' = [r \in Reqs |-> PollLog(r)]
    /\ cancelled' = [r \in Reqs |-> IF PollHandle(r) = "removed" THEN TRUE ELSE cancelled[r]]
    /\ chan' = [r \in Reqs |-> IF r \in Pending THEN <<>> ELSE chan[r]]
    /\ UNCHANGED <<POOL, queue, req, is_card, job, runs, aborted, call_vars>>

\* Dimension pairs the requests of Spec are built with: one valid, one with
\* a zero side, one too large.
ReqDims == {<<2, 1>>, <<0, 1>>, <<1, MAX_DIMENSION + 1>>}

Next ==
    \/ \E d \in ReqDims : Len(req) < MaxReq /\ bark(d[1], d[2])
    \/ \E d \in ReqDims : Len(req) < MaxReq /\ rock(d[1], d[2])
    \/ \E d \in ReqDims : Len(req) < MaxReq /\ ground(d[1], d[2])
    \/ \E d \in ReqDims : Len(req) < MaxReq /\ leaf(d[1], d[2])
    \/ \E d \in ReqDims : Len(req) < MaxReq /\ twig(d[1], d[2])
    \/ \E r \in Reqs : DropHandle(r)
    \/ \E r \in Reqs : JobStart(r)
    \/ \E r \in Reqs : JobFinish(r)
    \/ \E r \in Reqs : JobPanic(r)
    \/ PanicAbort
    \/ poll_texture_tasks

Spec == Init /\ [][Next]_vars

\* The pool under load: MAX_GENERATION_THREADS + ExtraJobs requests
\* submitted, dropped, run and polled in every order.
PoolReqs == MAX_GENERATION_THREADS + ExtraJobs

PoolNext ==
    \/ Len(req) < PoolReqs /\ bark(1, 1)
    \/ \E r \in Reqs : DropHandle(r)
    \/ \E r \in Reqs : JobStart(r)
    \/ \E r \in Reqs : JobFinish(r)
    \/ \E r \in Reqs : JobPanic(r)
    \/ PanicAbort
    \/ poll_texture_tasks

PoolSpec == Init /\ [][PoolNext]_vars

\* Requests of one generator, with valid and invalid dimensions, submitted,
\* dropped, run and polled in every order.
BarkNext ==
    \/ \E d \in ReqDims : Len(req) < MaxReq /\ bark(d[1], d[2])
    \/ \E r \in Reqs : DropHandle(r)
    \/ \E r \in Reqs : JobStart(r)
    \/ \E r \in Reqs : JobFinish(r)
    \/ \E r \in Reqs : JobPanic(r)
    \/ PanicAbort
    \/ poll_texture_tasks

BarkSpec == Init /\ [][BarkNext]_vars

(* --------------------------- direct generate -------------------------- *)

\* Dimensions tried: the small ones and those around MAX_DIMENSION.
GenDims == (0 .. MaxSmallDim) \cup {MAX_DIMENSION - 1, MAX_DIMENSION, MAX_DIMENSION + 1}

GenInit ==
    /\ SchedInit
    /\ gen_in \in {Closure(k, w, h) : k \in Kinds, w \in GenDims, h \in GenDims}
    /\ gen_out = NoCall
    /\ AuxInit

\* generator.generate(width, height), called directly.
GenCall ==
    /\ gen_out = NoCall
    /\ gen_out' = generate(gen_in.kind, gen_in.width, gen_in.height)
    /\ UNCHANGED <<sched_vars, gen_in, aux_vars>>

GenSpec == GenInit /\ [][GenCall]_vars

(* ------------------------------- mipmaps ------------------------------ *)

\* MipSpec tries base images of 1 .. MaxMipDim texels on each side.
MaxMipDim == 4

MipmapMode == {"Srgb", "Normal", "Linear"}

\* The f32 value 1.0 in the unit of SRGB_LUT.
LIN_ONE == 65536

\* The LUT of srgb_to_linear: entry v + 1 is c / 12.92 for c = v / 255 <=
\* 0.04045 and ((c + 0.055) / 1.055) ^ 2.4 otherwise, in units of
\* 1 / LIN_ONE.
SRGB_LUT ==
    <<
    0, 20, 40, 60, 80, 99, 119, 139, 159, 179, 199, 219, 241, 264, 288, 313,
    340, 367, 396, 427, 458, 491, 526, 562, 599, 637, 677, 718, 761, 805, 851, 898,
    947, 997, 1048, 1101, 1156, 1212, 1270, 1330, 1391, 1453, 1517, 1583, 1651, 1720, 1791, 1863,
    1937, 2013, 2090, 2170, 2250, 2333, 2418, 2504, 2592, 2681, 2773, 2866, 2961, 3058, 3157, 3258,
    3360, 3464, 3570, 3678, 3788, 3900, 4014, 4129, 4247, 4366, 4488, 4611, 4736, 4864, 4993, 5124,
    5257, 5392, 5530, 5669, 5810, 5953, 6099, 6246, 6395, 6547, 6701, 6856, 7014, 7174, 7336, 7500,
    7666, 7834, 8004, 8177, 8352, 8529, 8708, 8889, 9072, 9258, 9446, 9636, 9828, 10022, 10219, 10418,
    10619, 10822, 11028, 11236, 11446, 11658, 11873, 12090, 12309, 12531, 12754, 12981, 13209, 13440, 13673, 13909,
    14147, 14387, 14629, 14874, 15122, 15372, 15624, 15878, 16135, 16394, 16656, 16920, 17187, 17456, 17727, 18001,
    18278, 18556, 18838, 19121, 19408, 19696, 19988, 20281, 20578, 20876, 21178, 21481, 21788, 22096, 22408, 22722,
    23038, 23357, 23679, 24003, 24329, 24659, 24991, 25325, 25662, 26002, 26344, 26689, 27036, 27387, 27739, 28095,
    28453, 28813, 29177, 29543, 29911, 30283, 30657, 31033, 31413, 31795, 32180, 32567, 32957, 33350, 33746, 34144,
    34545, 34949, 35355, 35765, 36177, 36591, 37009, 37429, 37852, 38278, 38707, 39138, 39572, 40009, 40449, 40892,
    41337, 41786, 42237, 42691, 43147, 43607, 44069, 44534, 45003, 45474, 45947, 46424, 46904, 47386, 47871, 48360,
    48851, 49345, 49842, 50342, 50844, 51350, 51859, 52370, 52884, 53402, 53922, 54445, 54972, 55501, 56033, 56568,
    57106, 57647, 58191, 58738, 59288, 59841, 60397, 60956, 61518, 62083, 62651, 63222, 63796, 64373, 64953, 65536 >>

\* Decode an sRGB byte to linear light.
srgb_to_linear(v) == SRGB_LUT[v + 1]

\* generator.rs:383
N == 4096

\* The LUT of linear_to_srgb, whose N entries
\* round(255 * encoded(i / (N - 1))) rise from 0 to 255: entry e of
\* LUT_FIRST is the first index i at which the LUT holds e or more.
LUT_FIRST ==
    <<
    1, 2, 4, 5, 6, 7, 9, 10, 11, 12, 14, 15, 16, 18, 19, 21,
    23, 24, 26, 28, 30, 32, 34, 37, 39, 42, 44, 47, 49, 52, 55, 58,
    61, 64, 68, 71, 74, 78, 82, 85, 89, 93, 97, 102, 106, 110, 115, 119,
    124, 129, 134, 139, 144, 149, 154, 160, 165, 171, 177, 183, 189, 195, 201, 207,
    214, 220, 227, 234, 241, 248, 255, 262, 270, 277, 285, 293, 300, 308, 317, 325,
    333, 342, 350, 359, 368, 377, 386, 395, 405, 414, 424, 434, 444, 454, 464, 474,
    485, 495, 506, 517, 528, 539, 550, 562, 573, 585, 597, 609, 621, 633, 645, 658,
    670, 683, 696, 709, 722, 736, 749, 763, 777, 790, 805, 819, 833, 848, 862, 877,
    892, 907, 922, 938, 953, 969, 985, 1001, 1017, 1033, 1049, 1066, 1083, 1100, 1117, 1134,
    1151, 1169, 1186, 1204, 1222, 1240, 1259, 1277, 1296, 1314, 1333, 1352, 1372, 1391, 1410, 1430,
    1450, 1470, 1490, 1510, 1531, 1552, 1572, 1593, 1615, 1636, 1657, 1679, 1701, 1723, 1745, 1767,
    1790, 1812, 1835, 1858, 1881, 1904, 1928, 1951, 1975, 1999, 2023, 2048, 2072, 2097, 2122, 2146,
    2172, 2197, 2222, 2248, 2274, 2300, 2326, 2352, 2379, 2406, 2433, 2460, 2487, 2514, 2542, 2570,
    2597, 2626, 2654, 2682, 2711, 2740, 2769, 2798, 2827, 2857, 2886, 2916, 2946, 2977, 3007, 3038,
    3068, 3099, 3130, 3162, 3193, 3225, 3257, 3289, 3321, 3354, 3386, 3419, 3452, 3485, 3518, 3552,
    3586, 3620, 3654, 3688, 3722, 3757, 3792, 3827, 3862, 3897, 3933, 3969, 4005, 4041, 4077 >>

\* lut[i] of linear_to_srgb.
lut(i) == Cardinality({e \in 1 .. 255 : LUT_FIRST[e] <= i})

\* linear_to_srgb(linear): linear is the pair <<num, den>> for the f32
\* num / (den * LIN_ONE); it is clamped to [0, 1], quantised to the nearest
\* of the N - 1 steps and looked up.
linear_to_srgb(linear) ==
    LET one == linear[2] * LIN_ONE
        clamped == IF linear[1] < 0 THEN 0
                   ELSE IF linear[1] > one THEN one ELSE linear[1]
    IN  lut((2 * clamped * (N - 1) + one) \div (2 * one))

\* p / q <= r / s for naturals p, r and positive q, s, by comparing the
\* continued fractions (no product is formed).
RECURSIVE FracLeq(_, _, _, _)
FracLeq(p, q, r, s) ==
    LET ip == p \div q
        ir == r \div s
        pr == p % q
        rr == r % s
    IN  IF ip # ir THEN ip < ir
        ELSE IF pr = 0 THEN TRUE
        ELSE IF rr = 0 THEN FALSE
        ELSE FracLeq(s, rr, q, pr)

\* ((v * 0.5 + 0.5).clamp(0, 1) * 255).round() for v = c / sqrt(len2), which
\* is 128 + floor(255 * c / (2 * sqrt(len2))) within 0 .. 255.  The floor is
\* taken in exact arithmetic.
UnitToByte(c, len2) ==
    IF c = 0 THEN 128
    ELSE IF c > 0
    THEN LET below == {j \in 0 .. 127 : FracLeq(4 * j * j, 65025, c * c, len2)}
         IN  128 + CHOOSE j \in below : \A i \in below : i <= j
    ELSE LET above == {j \in 1 .. 128 : FracLeq(c * c, len2, 4 * j * j, 65025)}
         IN  IF above = {} THEN 0
             ELSE 128 - CHOOSE j \in above : \A i \in above : j <= i

\* p as f32 / 127.5 - 1.0, in units of 1 / 255.
decode(p) == 2 * p - 255

RECURSIVE ChanSum(_, _)
\* The sum of channel i over the pixels of a block.
ChanSum(pixels, i) ==
    IF pixels = <<>> THEN 0 ELSE pixels[1][i] + ChanSum(Tail(pixels), i)

RECURSIVE LinSum(_, _)
\* The sum of srgb_to_linear of channel i over the pixels of a block.
LinSum(pixels, i) ==
    IF pixels = <<>> THEN 0
    ELSE srgb_to_linear(pixels[1][i]) + LinSum(Tail(pixels), i)

RECURSIVE DecSum(_, _)
\* The sum of the decoded channel i over the pixels of a block.
DecSum(pixels, i) ==
    IF pixels = <<>> THEN 0 ELSE decode(pixels[1][i]) + DecSum(Tail(pixels), i)

\* A mutant of average_block: the Linear and Srgb sums are divided by 4,
\* the size of a full block, whatever the number of pixels gathered.
average_block_div4(pixels, mode) ==
    CASE mode = "Linear" ->
             <<ChanSum(pixels, 1) \div 4, ChanSum(pixels, 2) \div 4,
               ChanSum(pixels, 3) \div 4, ChanSum(pixels, 4) \div 4>>
      [] mode = "Srgb" ->
             <<linear_to_srgb(<<LinSum(pixels, 1), 4>>),
               linear_to_srgb(<<LinSum(pixels, 2), 4>>),
               linear_to_srgb(<<LinSum(pixels, 3), 4>>),
               ChanSum(pixels, 4) \div 4>>
      [] mode = "Normal" ->
             LET nx == DecSum(pixels, 1)
                 ny == DecSum(pixels, 2)
                 nz == DecSum(pixels, 3)
                 len2 == nx * nx + ny * ny + nz * nz
             IN  <<UnitToByte(nx, len2), UnitToByte(ny, len2),
                   UnitToByte(nz, len2), 255>>

\* average_block(pixels, mode).  In Normal mode the mean vector is
\* (nx, ny, nz) / (255 * n); a non-zero mean is longer than the 1e-6 floor
\* of len, and a zero mean divided by that floor stays zero.
average_block(pixels, mode) ==
    LET count == Len(pixels)
    IN  CASE mode = "Linear" ->
                 <<ChanSum(pixels, 1) \div count, ChanSum(pixels, 2) \div count,
                   ChanSum(pixels, 3) \div count, ChanSum(pixels, 4) \div count>>
          [] mode = "Srgb" ->
                 <<linear_to_srgb(<<LinSum(pixels, 1), count>>),
                   linear_to_srgb(<<LinSum(pixels, 2), count>>),
                   linear_to_srgb(<<LinSum(pixels, 3), count>>),
                   ChanSum(pixels, 4) \div count>>
          [] mode = "Normal" ->
                 LET nx == DecSum(pixels, 1)
                     ny == DecSum(pixels, 2)
                     nz == DecSum(pixels, 3)
                     len2 == nx * nx + ny * ny + nz * nz
                 IN  <<UnitToByte(nx, len2), UnitToByte(ny, len2),
                       UnitToByte(nz, len2), 255>>

\* A mutant of next_dim: the halving without .max(2).
next_dim_floor(d) == d \div 2

\* current.max(2) / 2
next_dim(d) == (IF d > 2 THEN d ELSE 2) \div 2

\* The locals of generate_mipmaps(data, base_width, base_height, mode) on
\* entry to the while loop; base keeps the argument data for reference.
MipCall(data, base_width, base_height, mode) ==
    [pc |-> "loop", base |-> data, base_width |-> base_width,
     base_height |-> base_height, mode |-> mode, data |-> data,
     mip_level_count |-> 1, current_width |-> base_width,
     current_height |-> base_height, prev_offset |-> 0]

\* [data[src_idx], data[src_idx + 1], data[src_idx + 2], data[src_idx + 3]]
\* (Rust indices start at 0).
SrcPixel(data, src_idx) ==
    <<data[src_idx + 1], data[src_idx + 2], data[src_idx + 3], data[src_idx + 4]>>

\* A mutant of BlockIdx: the 2x2 block is not cut at the image boundary.
BlockIdx_unclamped(m, x, y) ==
    LET sx == x * 2
        sy == y * 2
        kept == << <<0, 0>>, <<0, 1>>, <<1, 0>>, <<1, 1>> >>
    IN  [k \in 1 .. Len(kept) |->
            m.prev_offset + ((sy + kept[k][1]) * m.current_width
                             + (sx + kept[k][2])) * 4]

\* The src_idx of the texels gathered for destination texel (x, y): those
\* of the 2x2 source block at (2x, 2y) that lie inside the current level,
\* dy outer and dx inner.
BlockIdx(m, x, y) ==
    LET sx == x * 2
        sy == y * 2
        Inside(d) == sy + d[1] < m.current_height /\ sx + d[2] < m.current_width
        kept == SelectSeq(<< <<0, 0>>, <<0, 1>>, <<1, 0>>, <<1, 1>> >>, Inside)
    IN  [k \in 1 .. Len(kept) |->
            m.prev_offset + ((sy + kept[k][1]) * m.current_width
                             + (sx + kept[k][2])) * 4]

\* pixels[..count] for destination texel (x, y).
Block(m, x, y) ==
    LET idx == BlockIdx(m, x, y)
    IN  [k \in 1 .. Len(idx) |-> SrcPixel(m.data, idx[k])]

\* dst_idx of destination texel (x, y): next_offset is data.len() before
\* the resize.
DstIdx(m, x, y) == Len(m.data) + (y * next_dim(m.current_width) + x) * 4

\* The bytes one pass of the while loop writes at next_offset.
Level(m) ==
    LET next_width == next_dim(m.current_width)
        next_height == next_dim(m.current_height)
        avg == [p \in 0 .. next_width * next_height - 1 |->
                   average_block(Block(m, p % next_width, p \div next_width), m.mode)]
    IN  [i \in 1 .. next_width * next_height * 4 |->
            avg[(i - 1) \div 4][((i - 1) % 4) + 1]]

\* One pass of while current_width > 1 || current_height > 1.
MipLevel ==
    /\ mip # NoCall
    /\ mip.pc = "loop"
    /\ mip.current_width > 1 \/ mip.current_height > 1
    /\ mip' = [mip EXCEPT !.data = mip.data \o Level(mip),
                          !.prev_offset = Len(mip.data),
                          !.current_width = next_dim(mip.current_width),
                          !.current_height = next_dim(mip.current_height),
                          !.mip_level_count = @ + 1]
    /\ UNCHANGED <<sched_vars, gen_in, gen_out, once>>

\* The loop condition fails: (data, mip_level_count) is returned.
MipReturn ==
    /\ mip # NoCall
    /\ mip.pc = "loop"
    /\ ~(mip.current_width > 1 \/ mip.current_height > 1)
    /\ mip' = [mip EXCEPT !.pc = "done"]
    /\ UNCHANGED <<sched_vars, gen_in, gen_out, once>>

MipDims == 1 .. MaxMipDim

\* A base image whose texels all hold the same RGBA value; over v in
\* 0 .. 255 every channel takes every byte value.
UniformImage(v, w, h) ==
    LET rgba == <<v, 255 - v, (v * 7) % 256, v>>
    IN  [i \in 1 .. w * h * 4 |-> rgba[((i - 1) % 4) + 1]]

\* Texel values of the patterned base images: the flat normal and two
\* opposite vectors.
Palette == << <<128, 128, 255, 255>>, <<255, 255, 255, 255>>, <<0, 0, 0, 255>> >>

\* A base image whose texel (x, y) is Palette entry (a*x + b*y + c) mod 3.
PatternImage(a, b, c, w, h) ==
    [i \in 1 .. w * h * 4 |->
        LET p == (i - 1) \div 4
        IN  Palette[((a * (p % w) + b * (p \div w) + c) % 3) + 1][((i - 1) % 4) + 1]]

\* make_image calls generate_mipmaps on the base buffer of an image.
MipInit ==
    /\ SchedInit
    /\ gen_in = NoCall
    /\ gen_out = NoCall
    /\ once = OnceIdle
    /\ mip \in {MipCall(UniformImage(v, w, h), w, h, mode) :
                   v \in 0 .. 255, w \in MipDims, h \in MipDims, mode \in MipmapMode}
               \cup
               {MipCall(PatternImage(t[1], t[2], t[3], w, h), w, h, mode) :
                   t \in (0 .. 2) \X (0 .. 2) \X (0 .. 2),
                   w \in MipDims, h \in MipDims, mode \in MipmapMode}

MipNext ==
    \/ MipLevel
    \/ MipReturn

MipSpec == MipInit /\ [][MipNext]_vars

(* ---------------------------- toroidal noise --------------------------- *)

\* NoiseSpec tries the frequencies 1 .. MaxFreq.
MaxFreq == 4

\* u and v are taken on the lattice k / UV_DEN, k in 0 .. UV_DEN; the k of a
\* coordinate stands for it.
UV_DEN == 8

\* std::f64::consts::TAU: a full turn, in the angle steps of COS_TAB.
TAU == 16

\* cos of 0, 1, .. 15 sixteenths of a turn, in thousandths.
COS_TAB == <<1000, 924, 707, 383, 0, -383, -707, -924,
             -1000, -924, -707, -383, 0, 383, 707, 924>>

\* f64::cos of an angle given in steps (exact: the period is one turn).
cos(a) == COS_TAB[(a % 16) + 1]

\* f64::sin: the cosine a quarter turn back.
sin(a) == cos(a + 12)

\* ToroidalNoise::new(noise, frequency); the wrapped noise function is
\* known by its seed.
ToroidalNoise(noise, frequency) == [noise |-> noise, frequency |-> frequency]

\* NoiseFn::get of the wrapped function: some value fixed by the function
\* and the point, different for different points.
noise_get(noise, point) == <<noise, point>>

\* A mutant of get: the angles are PI * u and PI * v, half a turn over the
\* texture.
get_half_turn(self, u, v) ==
    LET nx == cos(((TAU \div 2) * u) \div UV_DEN) * self.frequency
        ny == sin(((TAU \div 2) * u) \div UV_DEN) * self.frequency
        nz == cos(((TAU \div 2) * v) \div UV_DEN) * self.frequency
        nw == sin(((TAU \div 2) * v) \div UV_DEN) * self.frequency
    IN  noise_get(self.noise, <<nx, ny, nz, nw>>)

\* ToroidalNoise::get(u, v)
get(self, u, v) ==
    LET nx == cos((TAU * u) \div UV_DEN) * self.frequency
        ny == sin((TAU * u) \div UV_DEN) * self.frequency
        nz == cos((TAU * v) \div UV_DEN) * self.frequency
        nw == sin((TAU * v) \div UV_DEN) * self.frequency
    IN  noise_get(self.noise, <<nx, ny, nz, nw>>)

\* The two samples tiles_seamlessly compares: across the u edges at a given
\* v, or across the v edges at a given u.
NoiseInit ==
    /\ SchedInit
    /\ AuxInit
    /\ gen_in \in [fn : {"get"},
                   self : {ToroidalNoise(seed, f) : seed \in {1, 42}, f \in 1 .. MaxFreq},
                   edge : {"u", "v"},
                   at : 0 .. UV_DEN]
    /\ gen_out = NoCall

NoiseCall ==
    /\ gen_in # NoCall
    /\ gen_in.fn = "get"
    /\ gen_out = NoCall
    /\ gen_out' = IF gen_in.edge = "u"
                  THEN [at_0 |-> get(gen_in.self, 0, gen_in.at),
                        at_1 |-> get(gen_in.self, UV_DEN, gen_in.at)]
                  ELSE [at_0 |-> get(gen_in.self, gen_in.at, 0),
                        at_1 |-> get(gen_in.self, gen_in.at, UV_DEN)]
    /\ UNCHANGED <<sched_vars, gen_in, aux_vars>>

NoiseSpec == NoiseInit /\ [][NoiseCall]_vars

(* --------------------------- height to normal -------------------------- *)

\* NormalSpec tries height fields of 1 .. MaxNormDim texels on each side.
MaxNormDim == 3

\* Heights are taken on the lattice k / H_DEN, k in 0 .. H_DEN; the k of a
\* height stands for it.
H_DEN == 2

BoundaryMode == {"Wrap", "Clamp"}

\* (xm, xp, ym, yp): the neighbour indices of texel (x, y).
Neighbours(x, y, w, h, boundary) ==
    IF boundary = "Wrap"
    THEN <<(x + w - 1) % w, (x + 1) % w, (y + h - 1) % h, (y + 1) % h>>
    ELSE <<IF x = 0 THEN 0 ELSE x - 1,
           IF x + 1 < w - 1 THEN x + 1 ELSE w - 1,
           IF y = 0 THEN 0 ELSE y - 1,
           IF y + 1 < h - 1 THEN y + 1 ELSE h - 1>>

\* A mutant of Dist: the Clamp spacings without .max(1).
Dist_nomax(nb, boundary) ==
    IF boundary = "Wrap" THEN <<2, 2>>
    ELSE <<nb[2] - nb[1], nb[4] - nb[3]>>

\* A mutant of Dist: the central-difference spacing in both modes.
Dist_central(nb, boundary) == <<2, 2>>

\* (x_dist, y_dist): the sample spacing the differences are divided by.
Dist(nb, boundary) ==
    IF boundary = "Wrap" THEN <<2, 2>>
    ELSE <<IF nb[2] - nb[1] > 1 THEN nb[2] - nb[1] ELSE 1,
           IF nb[4] - nb[3] > 1 THEN nb[4] - nb[3] ELSE 1>>

\* Whether the f64 quotient by dist is NaN: a zero dist can only meet a zero
\* difference, and 0.0 / 0.0 is NaN.
IsNaN(dist) == dist = 0

\* diff * s * n / dist in f64, in units of 1 / (2 * H_DEN), where it is a
\* number: dist is then 1 or 2.
Slope(diff, s, n, dist) ==
    IF IsNaN(dist) THEN 0 ELSE (diff * s * n * 2) \div dist

\* dx and dy at texel (x, y), with the spacings used.
gradient(heights, w, h, s, boundary, x, y) ==
    LET nb == Neighbours(x, y, w, h, boundary)
        left == heights[y * w + nb[1] + 1]
        right == heights[y * w + nb[2] + 1]
        above == heights[nb[3] * w + x + 1]
        below == heights[nb[4] * w + x + 1]
        dist == Dist(nb, boundary)
    IN  [x_dist |-> dist[1], y_dist |-> dist[2],
         nan |-> IsNaN(dist[1]) \/ IsNaN(dist[2]),
         dx |-> Slope(right - left, s, w, dist[1]),
         dy |-> Slope(below - above, s, h, dist[2])]

\* encode_normal(n) for n = c / sqrt(len2), given as <<c, len2>>.
encode_normal(n) == UnitToByte(n[1], n[2])

\* The four bytes of texel (x, y): normalize(-dx, dy, 1) encoded, alpha 255.
\* A NaN gradient makes every component NaN, which the cast to u8 turns
\* into 0.
NormalTexel(heights, w, h, s, boundary, x, y) ==
    LET g == gradient(heights, w, h, s, boundary, x, y)
        one == 2 * H_DEN
    IN  IF g.nan THEN <<0, 0, 0, 255>>
        ELSE LET len2 == g.dx * g.dx + g.dy * g.dy + one * one
             IN  <<encode_normal(<<-g.dx, len2>>), encode_normal(<<g.dy, len2>>),
                   encode_normal(<<one, len2>>), 255>>

\* height_to_normal(heights, width, height, strength, boundary)
height_to_normal(heights, width, height, strength, boundary) ==
    IF width = 0 \/ height = 0 THEN <<>>
    ELSE [i \in 1 .. width * height * 4 |->
             LET p == (i - 1) \div 4
             IN  NormalTexel(heights, width, height, strength, boundary,
                             p % width, p \div width)[((i - 1) % 4) + 1]]

NormDims == 1 .. MaxNormDim

\* A height field whose texel (x, y) holds (a*x + b*y + c) mod (H_DEN + 1).
PatternHeights(a, b, c, w, h) ==
    [i \in 1 .. w * h |->
        (a * ((i - 1) % w) + b * ((i - 1) \div w) + c) % (H_DEN + 1)]

NormalInit ==
    /\ SchedInit
    /\ AuxInit
    /\ gen_in \in {[fn |-> "height_to_normal",
                    heights |-> PatternHeights(t[1], t[2], t[3], d[1], d[2]),
                    width |-> d[1], height |-> d[2],
                    strength |-> s, boundary |-> b] :
                      t \in (0 .. H_DEN) \X (0 .. H_DEN) \X (0 .. H_DEN),
                      d \in NormDims \X NormDims,
                      s \in 1 .. 2, b \in BoundaryMode}
    /\ gen_out = NoCall

NormalCall ==
    /\ gen_in # NoCall
    /\ gen_in.fn = "height_to_normal"
    /\ gen_out = NoCall
    /\ gen_out' = height_to_normal(gen_in.heights, gen_in.width, gen_in.height,
                                   gen_in.strength, gen_in.boundary)
    /\ UNCHANGED <<sched_vars, gen_in, aux_vars>>

NormalSpec == NormalInit /\ [][NormalCall]_vars

(* ------------------------------- progress ------------------------------ *)

\* The request LiveSpec submits next: valid and zero-width requests
\* alternate.
LiveSubmit ==
    /\ Len(req) < PoolReqs
    /\ IF Len(req) % 2 = 0 THEN bark(1, 1) ELSE bark(0, 1)

\* The scheduler with every synthesis call returning.
LiveNext ==
    \/ LiveSubmit
    \/ \E r \in Reqs : DropHandle(r)
    \/ \E r \in Reqs : JobStart(r)
    \/ \E r \in Reqs : JobFinish(r)
    \/ poll_texture_tasks

\* A free worker takes the oldest queued job, every call of f() returns,
\* and the host runs poll_texture_tasks again and again.
LiveSpec ==
    /\ Init
    /\ [][LiveNext]_vars
    /\ WF_vars(\E r \in Reqs : JobStart(r))
    /\ \A r \in 1 .. PoolReqs : WF_vars(r \in Reqs /\ JobFinish(r))
    /\ WF_vars(poll_texture_tasks)

(* ---------------------------- pool creation --------------------------- *)

\* A thread enters spawn_task and reaches gen_pool().
OnceEnter(t) ==
    /\ once.thr[t].pc = "idle"
    /\ Len(once.thr[t].spawned) < MaxSubmits
    /\ once' = [once EXCEPT !.thr[t].pc = "get_or_init"]
    /\ UNCHANGED <<sched_vars, gen_in, gen_out, mip>>

\* get_or_init finds the cell initialised and returns the reference.
OnceGet(t) ==
    /\ once.thr[t].pc = "get_or_init"
    /\ POOL = "built"
    /\ once' = [once EXCEPT !.thr[t].pc = "spawn", !.thr[t].pool = once.value]
    /\ UNCHANGED <<sched_vars, gen_in, gen_out, mip>>

\* A mutant of OnceBegin: the cell is tested and the initialiser started
\* with nothing excluding a second thread.
OnceBeginRacy(t) ==
    /\ once.thr[t].pc = "get_or_init"
    /\ POOL \in {"uninit", "running"}
    /\ POOL' = "running"
    /\ once' = [once EXCEPT !.thr[t].pc = "init"]
    /\ UNCHANGED <<queue, req, is_card, cancelled, chan, job, handle, ready,
                   log, runs, aborted, gen_in, gen_out, mip>>

\* get_or_init finds the cell empty and becomes the one thread that runs the
\* initialiser; a thread that finds it running blocks until it is settled.
OnceBegin(t) ==
    /\ once.thr[t].pc = "get_or_init"
    /\ POOL = "uninit"
    /\ POOL' = "running"
    /\ once' = [once EXCEPT !.thr[t].pc = "init"]
    /\ UNCHANGED <<queue, req, is_card, cancelled, chan, job, handle, ready,
                   log, runs, aborted, gen_in, gen_out, mip>>

\* ThreadPoolBuilder::new().num_threads(MAX_GENERATION_THREADS).build()
\* returns Ok: the pool is stored in the cell.
OnceBuildOk(t) ==
    /\ once.thr[t].pc = "init"
    /\ POOL' = gen_pool
    /\ once' = [once EXCEPT
                  !.built = Append(@, [num_threads |-> MAX_GENERATION_THREADS]),
                  !.value = Len(once.built) + 1,
                  !.thr[t].pc = "spawn",
                  !.thr[t].pool = Len(once.built) + 1]
    /\ UNCHANGED <<queue, req, is_card, cancelled, chan, job, handle, ready,
                   log, runs, aborted, gen_in, gen_out, mip>>

\* build() returns Err: expect panics in the calling thread, and the cell
\* is left empty for the next caller.
OnceBuildErr(t) ==
    /\ once.thr[t].pc = "init"
    /\ POOL' = "uninit"
    /\ once' = [once EXCEPT !.thr[t].pc = "panicked"]
    /\ UNCHANGED <<queue, req, is_card, cancelled, chan, job, handle, ready,
                   log, runs, aborted, gen_in, gen_out, mip>>

\* .spawn(closure) on the reference gen_pool() returned.
OnceSpawn(t) ==
    /\ once.thr[t].pc = "spawn"
    /\ once' = [once EXCEPT !.thr[t].pc = "idle",
                            !.thr[t].spawned = Append(@, once.thr[t].pool)]
    /\ UNCHANGED <<sched_vars, gen_in, gen_out, mip>>

OnceNext ==
    \E t \in Threads :
        \/ OnceEnter(t)
        \/ OnceGet(t)
        \/ OnceBegin(t)
        \/ OnceBuildOk(t)
        \/ OnceBuildErr(t)
        \/ OnceSpawn(t)

OnceSpec == Init /\ [][OnceNext]_vars

(* --------------------------- leaf attachments -------------------------- *)

\* TwigSpec tries leaf_pairs in 0 .. MaxLeafPairs.
MaxLeafPairs == 4

\* TERMINAL_SCALE, 0.72, in hundredths.
TERMINAL_SCALE == 72

\* leaf_scale is given in thousandths and LeafAttachment.scale in units of
\* 1 / (1000 * SCALE_DEN), so that leaf_scale * TERMINAL_SCALE is exact.
SCALE_DEN == 100

\* The TwigConfig fields leaf_attachments reads for the length, the sides
\* and the scales of its result.
TwigConfig(leaf_pairs, leaf_scale, sympodial) ==
    [leaf_pairs |-> leaf_pairs, leaf_scale |-> leaf_scale, sympodial |-> sympodial]

\* usize::max
usize_max(a, b) == IF a >= b THEN a ELSE b

\* LeafAttachment.  attach_v is lat_start + (num / den) * lat_span, or
\* term_v; attach_u is stem_center_u(attach_v); angle is
\* stem_tangent_at(attach_v) + side * leaf_angle + pi * PI.
LeafAttachment(attach_v, angle, scale) ==
    [attach_v |-> attach_v, angle |-> angle, scale |-> scale]

\* The terminal leaf both topologies push last.
terminal_attachment(c) ==
    LeafAttachment([at |-> "term_v", num |-> 0, den |-> 1],
                   [side |-> 0, pi |-> 1],
                   c.leaf_scale * TERMINAL_SCALE)

\* monopodial_attachments(n, perlin): for i in 0..n a right and a left leaf
\* at the same node, then the terminal leaf.
monopodial_attachments(c, n) ==
    Append([k \in 1 .. 2 * n |->
               LET i == (k - 1) \div 2
               IN  LeafAttachment([at |-> "lat", num |-> i, den |-> n],
                                  [side |-> IF k % 2 = 1 THEN 1 ELSE -1, pi |-> 0],
                                  c.leaf_scale * SCALE_DEN)],
           terminal_attachment(c))

\* sympodial_attachments(n, perlin): for i in 0..n one leaf at the i-th
\* extremum of the zigzag, on side +1 for even i, then the terminal leaf.
sympodial_attachments(c, n) ==
    Append([k \in 1 .. n |->
               LET i == k - 1
               IN  LeafAttachment([at |-> "lat", num |-> 2 * i + 1, den |-> 2 * n],
                                  [side |-> IF i % 2 = 0 THEN 1 ELSE -1, pi |-> 0],
                                  c.leaf_scale * SCALE_DEN)],
           terminal_attachment(c))

\* A mutant of leaf_attachments: leaf_pairs is used as it is.
leaf_attachments_nomax(c) ==
    IF c.sympodial
    THEN sympodial_attachments(c, c.leaf_pairs)
    ELSE monopodial_attachments(c, c.leaf_pairs)

\* TwigGenerator::leaf_attachments
leaf_attachments(c) ==
    LET n == usize_max(c.leaf_pairs, 1)
    IN  IF c.sympodial
        THEN sympodial_attachments(c, n)
        ELSE monopodial_attachments(c, n)

\* leaf_scale from 0.05 to 0.6 in steps of 0.05, and the default 0.38.
TwigInit ==
    /\ SchedInit
    /\ AuxInit
    /\ gen_in \in {[fn |-> "leaf_attachments", c |-> TwigConfig(p, s, b)] :
                      p \in 0 .. MaxLeafPairs,
                      s \in {50 * k : k \in 1 .. 12} \cup {380},
                      b \in BOOLEAN}
    /\ gen_out = NoCall

TwigCall ==
    /\ gen_in # NoCall
    /\ gen_in.fn = "leaf_attachments"
    /\ gen_out = NoCall
    /\ gen_out' = [atts |-> leaf_attachments(gen_in.c)]
    /\ UNCHANGED <<sched_vars, gen_in, aux_vars>>

TwigSpec == TwigInit /\ [][TwigCall]_vars

(* ------------------------------ job order ----------------------------- *)

\* Two more requests than the pool has workers, at least: two jobs can
\* wait behind a full pool.
OrderReqs == PoolReqs + 1

\* Submissions, drops and the workers, without the polling side.
OrderNext ==
    \/ Len(req) < OrderReqs /\ bark(1, 1)
    \/ \E r \in Reqs : DropHandle(r)
    \/ \E r \in Reqs : JobStart(r)
    \/ \E r \in Reqs : JobFinish(r)

OrderSpec == Init /\ [][OrderNext]_vars

(* --------------------------- height dilation -------------------------- *)

\* DilateSpec tries cards of 1 .. MaxDilDim texels on each side and of at
\* most MaxDilPixels texels in all, with every mask of transparent and
\* opaque texels.
MaxDilDim == 3
MaxDilPixels == 9

\* Heights are in units of 1 / (2 * HEIGHT_UNIT): the inputs are multiples
\* of HEIGHT_UNIT, so that a mean of 1, 2, 3 or 4 of them is exact.
HEIGHT_UNIT == 12

\* The offsets (dy, dx) in the order the code tries them.
DILATE_OFFSETS == <<<<-1, 0>>, <<1, 0>>, <<0, -1>>, <<0, 1>>>>

\* The in-image 4-neighbours of (x, y) whose alpha byte is not 0, as
\* 0-based pixel indices.
OpaqueNeighbours(alpha, w, h, x, y) ==
    {i \in 0 .. w * h - 1 :
        /\ alpha[i + 1] # 0
        /\ \E k \in 1 .. Len(DILATE_OFFSETS) :
              LET ny == y + DILATE_OFFSETS[k][1]
                  nx == x + DILATE_OFFSETS[k][2]
              IN  /\ ny >= 0 /\ ny < h /\ nx >= 0 /\ nx < w
                  /\ i = ny * w + nx}

RECURSIVE SumOver(_, _)
\* sum += heights[nidx] over the indices in set.
SumOver(heights, set) ==
    IF set = {} THEN 0
    ELSE LET i == CHOOSE j \in set : TRUE
         IN  heights[i + 1] + SumOver(heights, set \ {i})

\* A mutant of dilated_at: the sum is divided by the four offsets tried.
dilated_at_div4(heights, dilated, alpha, w, h, idx) ==
    LET nbs == OpaqueNeighbours(alpha, w, h, idx % w, idx \div w)
    IN  IF alpha[idx + 1] # 0 THEN dilated[idx + 1]
        ELSE IF Cardinality(nbs) > 0
             THEN SumOver(heights, nbs) \div 4
             ELSE dilated[idx + 1]

\* The body of the loop for pixel idx: the value dilated[idx] has after it.
dilated_at(heights, dilated, alpha, w, h, idx) ==
    LET nbs == OpaqueNeighbours(alpha, w, h, idx % w, idx \div w)
    IN  IF alpha[idx + 1] # 0 THEN dilated[idx + 1]
        ELSE IF Cardinality(nbs) > 0
             THEN SumOver(heights, nbs) \div Cardinality(nbs)
             ELSE dilated[idx + 1]

\* The height field of a card before dilation: 0.5 behind a transparent
\* pixel, and a multiple of HEIGHT_UNIT that varies from pixel to pixel
\* behind an opaque one.
CardHeights(alpha) ==
    [i \in 1 .. Len(alpha) |->
        IF alpha[i] = 0 THEN HEIGHT_UNIT ELSE HEIGHT_UNIT * (((3 * i) % 5) % 3)]

\* Every mask of alpha bytes 0 and 255 over every image of at most
\* MaxDilPixels pixels.
DilateInit ==
    /\ SchedInit
    /\ AuxInit
    /\ gen_in \in UNION {{[fn |-> "dilate_heights", heights |-> CardHeights(a),
                             alpha |-> a, w |-> d[1], h |-> d[2]] :
                               a \in [1 .. d[1] * d[2] -> {0, 255}]} :
                           d \in {e \in (1 .. MaxDilDim) \X (1 .. MaxDilDim) :
                                      e[1] * e[2] <= MaxDilPixels}}
    /\ gen_out = NoCall

\* let mut dilated = heights.to_vec();
DilateEnter ==
    /\ gen_in # NoCall
    /\ gen_in.fn = "dilate_heights"
    /\ gen_out = NoCall
    /\ gen_out' = [pc |-> "loop", idx |-> 0,
                   heights |-> gen_in.heights, dilated |-> gen_in.heights]
    /\ UNCHANGED <<sched_vars, gen_in, aux_vars>>

\* One pass of the loop body, for pixel idx = y * w + x.
DilatePixel ==
    /\ gen_out # NoCall
    /\ gen_out.pc = "loop"
    /\ gen_out.idx < gen_in.w * gen_in.h
    /\ gen_out' = [gen_out EXCEPT
                     !.dilated[gen_out.idx + 1] =
                         dilated_at(gen_out.heights, gen_out.dilated, gen_in.alpha,
                                    gen_in.w, gen_in.h, gen_out.idx),
                     !.idx = @ + 1]
    /\ UNCHANGED <<sched_vars, gen_in, aux_vars>>

\* heights.copy_from_slice(&dilated);
DilateReturn ==
    /\ gen_out # NoCall
    /\ gen_out.pc = "loop"
    /\ gen_out.idx = gen_in.w * gen_in.h
    /\ gen_out' = [gen_out EXCEPT !.heights = gen_out.dilated, !.pc = "done"]
    /\ UNCHANGED <<sched_vars, gen_in, aux_vars>>

DilateNext ==
    \/ DilateEnter
    \/ DilatePixel
    \/ DilateReturn

DilateSpec == DilateInit /\ [][DilateNext]_vars

(* ------------------------------ twig pixels --------------------------- *)

\* TwigPixelSpec composites pixels over lists of 2 .. MaxAtts attachments
\* (leaf_attachments returns at least one lateral leaf and the terminal
\* leaf).
MaxAtts == 3

\* Heights are in hundredths.  vec![0.5f64; n]
NEUTRAL_HEIGHT == 50

\* heights[idx] = t as f64 * 0.6, for t in hundredths.
stem_height(t) == (t * 60) \div 100

\* Option<LeafSample>, reduced to the height of the sample.
NoSample == [tag |-> "None", height |-> 0]
SomeSample(height) == [tag |-> "Some", height |-> height]

\* The pixel's place relative to the stem: outside it (s_hw <= 1e-9 or
\* dist_to_stem >= s_hw), or inside with t = 1 - dist_to_stem / s_hw; and
\* a list of 2 .. MaxAtts attachments, each as it is for the pixel: whether
\* (lu, lv) falls inside the leaf card, and what sampler.sample(lu, lv)
\* returns there.
TwigPixelInit ==
    /\ SchedInit
    /\ AuxInit
    /\ gen_in \in UNION {{[fn |-> "twig_pixel", stem |-> st, atts |-> a] :
                             st \in {[inside |-> FALSE, t |-> 0],
                                      [inside |-> TRUE, t |-> 50],
                                      [inside |-> TRUE, t |-> 100]},
                             a \in [1 .. n -> [card : BOOLEAN,
                                               sample : {NoSample, SomeSample(20),
                                                         SomeSample(80)}]]} :
                         n \in 2 .. MaxAtts}
    /\ gen_out = NoCall

\* The pixel before the loop body touches it: heights holds 0.5 and albedo
\* zeros.  sampled lists the attachments sampler.sample was called for.
PixelEnter ==
    /\ gen_in # NoCall
    /\ gen_in.fn = "twig_pixel"
    /\ gen_out = NoCall
    /\ gen_out' = [pc |-> "stem", height |-> NEUTRAL_HEIGHT, alpha |-> 0,
                   hit |-> FALSE, k |-> 1, sampled |-> <<>>]
    /\ UNCHANGED <<sched_vars, gen_in, aux_vars>>

\* if s_hw > 1e-9 && dist_to_stem < s_hw { ..; continue; }
PixelStem ==
    /\ gen_out # NoCall
    /\ gen_out.pc = "stem"
    /\ gen_out' = IF gen_in.stem.inside
                  THEN [gen_out EXCEPT !.height = stem_height(gen_in.stem.t),
                                       !.alpha = 255,
                                       !.pc = "done"]
                  ELSE [gen_out EXCEPT !.pc = "leaves"]
    /\ UNCHANGED <<sched_vars, gen_in, aux_vars>>

\* A mutant of PixelLeaf: the loop goes on after a hit.
PixelLeafNoBreak ==
    /\ gen_out # NoCall
    /\ gen_out.pc = "leaves"
    /\ LET k == gen_out.k
       IN  IF k > Len(gen_in.atts)
           THEN gen_out' = [gen_out EXCEPT !.pc = "after"]
           ELSE IF ~gen_in.atts[k].card
                THEN gen_out' = [gen_out EXCEPT !.k = k + 1]
                ELSE IF gen_in.atts[k].sample.tag = "Some"
                     THEN gen_out' = [gen_out EXCEPT
                                        !.sampled = Append(@, k),
                                        !.height = gen_in.atts[k].sample.height,
                                        !.alpha = 255,
                                        !.hit = TRUE,
                                        !.k = k + 1]
                     ELSE gen_out' = [gen_out EXCEPT !.sampled = Append(@, k),
                                                     !.k = k + 1]
    /\ UNCHANGED <<sched_vars, gen_in, aux_vars>>

\* One pass of `for att in &attachments`: skip the attachment when the
\* pixel is outside its card, else sample the leaf; a sample writes the
\* pixel and breaks.
PixelLeaf ==
    /\ gen_out # NoCall
    /\ gen_out.pc = "leaves"
    /\ LET k == gen_out.k
       IN  IF k > Len(gen_in.atts)
           THEN gen_out' = [gen_out EXCEPT !.pc = "after"]
           ELSE IF ~gen_in.atts[k].card
                THEN gen_out' = [gen_out EXCEPT !.k = k + 1]
                ELSE IF gen_in.atts[k].sample.tag = "Some"
                     THEN gen_out' = [gen_out EXCEPT
                                        !.sampled = Append(@, k),
                                        !.height = gen_in.atts[k].sample.height,
                                        !.alpha = 255,
                                        !.hit = TRUE,
                                        !.pc = "after"]
                     ELSE gen_out' = [gen_out EXCEPT !.sampled = Append(@, k),
                                                     !.k = k + 1]
    /\ UNCHANGED <<sched_vars, gen_in, aux_vars>>

\* if !hit { ..; albedo[ai + 3] = 0; .. }
PixelMiss ==
    /\ gen_out # NoCall
    /\ gen_out.pc = "after"
    /\ gen_out' = IF gen_out.hit
                  THEN [gen_out EXCEPT !.pc = "done"]
                  ELSE [gen_out EXCEPT !.alpha = 0, !.pc = "done"]
    /\ UNCHANGED <<sched_vars, gen_in, aux_vars>>

TwigPixelNext ==
    \/ PixelEnter
    \/ PixelStem
    \/ PixelLeaf
    \/ PixelMiss

TwigPixelSpec == TwigPixelInit /\ [][TwigPixelNext]_vars

(* ------------------------------- mutation ----------------------------- *)

\* MutateSpec follows up to MaxMutations successive mutate calls.
MaxMutations == 3

\* Field values, rates and random draws are in thousandths.
\* std::f64::consts::FRAC_PI_2
FRAC_PI_2 == 1571

\* A mutant of mutate_f64: the perturbed value is returned unclamped.
mutate_f64_noclamp(val, u, x, rate, half_range, min, max) ==
    IF u < rate
    THEN val + ((x - 500) * 2 * half_range) \div 1000
    ELSE val

\* mutate_f64(val, rng, rate, half_range, min, max), u and x being the two
\* draws in the order the code makes them.
mutate_f64(val, u, x, rate, half_range, min, max) ==
    IF u < rate
    THEN LET v == val + ((x - 500) * 2 * half_range) \div 1000
         IN  IF v < min THEN min ELSE IF v > max THEN max ELSE v
    ELSE val

\* mutate_f32(val, rng, rate, half_range, min, max)
mutate_f32(val, u, x, rate, half_range, min, max) ==
    IF u < rate
    THEN LET v == val + ((x - 500) * 2 * half_range) \div 1000
         IN  IF v < min THEN min ELSE IF v > max THEN max ELSE v
    ELSE val

\* A mutant of mutate_usize: the decrement is not held at min.
mutate_usize_nomin(val, u, up, rate, min, max) ==
    IF u < rate
    THEN IF up
         THEN (IF val + 1 < max THEN val + 1 ELSE max)
         ELSE (IF val = 0 THEN 0 ELSE val - 1)
    ELSE val

\* mutate_usize(val, rng, rate, min, max), up being rng.random::<bool>().
mutate_usize(val, u, up, rate, min, max) ==
    IF u < rate
    THEN IF up
         THEN (IF val + 1 < max THEN val + 1 ELSE max)
         ELSE LET d == IF val = 0 THEN 0 ELSE val - 1
              IN  IF d > min THEN d ELSE min
    ELSE val

\* mutate_seed(val, rng, rate): fresh stands for rng.random::<u32>().
mutate_seed(val, u, fresh, rate) == IF u < rate THEN fresh ELSE val

\* One assignment of a mutate body: the field and the helper call made for
\* it.
Stmt(config, field, helper, half_range, min, max) ==
    [config |-> config, field |-> field, helper |-> helper,
     half_range |-> half_range, min |-> min, max |-> max]

\* mutate_color3: each channel through mutate_f32(.., half_range, 0.0, 1.0).
Color3(config, field) == Stmt(config, field, "mutate_f32", 70, 0, 1000)

\* impl Genotype for BarkConfig: mutate
BarkMutate ==
    {Stmt("Bark", "seed", "mutate_seed", 0, 0, 2),
     Stmt("Bark", "scale", "mutate_f64", 1000, 500, 16000),
     Stmt("Bark", "octaves", "mutate_usize", 0, 1, 12),
     Stmt("Bark", "warp_u", "mutate_f64", 100, 0, 1000),
     Stmt("Bark", "warp_v", "mutate_f64", 200, 0, 2000),
     Color3("Bark", "color_light"),
     Color3("Bark", "color_dark"),
     Stmt("Bark", "normal_strength", "mutate_f32", 500, 500, 8000)}

\* impl Genotype for RockConfig: mutate
RockMutate ==
    {Stmt("Rock", "seed", "mutate_seed", 0, 0, 2),
     Stmt("Rock", "scale", "mutate_f64", 750, 500, 12000),
     Stmt("Rock", "octaves", "mutate_usize", 0, 1, 14),
     Stmt("Rock", "attenuation", "mutate_f64", 250, 1000, 4000),
     Color3("Rock", "color_light"),
     Color3("Rock", "color_dark"),
     Stmt("Rock", "normal_strength", "mutate_f32", 500, 500, 8000)}

\* impl Genotype for GroundConfig: mutate
GroundMutate ==
    {Stmt("Ground", "seed", "mutate_seed", 0, 0, 2),
     Stmt("Ground", "macro_scale", "mutate_f64", 500, 500, 8000),
     Stmt("Ground", "macro_octaves", "mutate_usize", 0, 1, 10),
     Stmt("Ground", "micro_scale", "mutate_f64", 1000, 1000, 20000),
     Stmt("Ground", "micro_octaves", "mutate_usize", 0, 1, 10),
     Stmt("Ground", "micro_weight", "mutate_f64", 100, 0, 1000),
     Color3("Ground", "color_dry"),
     Color3("Ground", "color_moist"),
     Stmt("Ground", "normal_strength", "mutate_f32", 500, 500, 8000)}

\* impl Genotype for LeafConfig: mutate, for the leaf of config.
LeafMutate(config) ==
    {Stmt(config, "seed", "mutate_seed", 0, 0, 2),
     Color3(config, "color_base"),
     Color3(config, "color_edge"),
     Stmt(config, "serration_strength", "mutate_f64", 10, 0, 150),
     Stmt(config, "vein_angle", "mutate_f64", 300, 500, 6000),
     Stmt(config, "micro_detail", "mutate_f64", 100, 0, 1000),
     Stmt(config, "normal_strength", "mutate_f32", 300, 500, 6000)}

\* impl Genotype for TwigConfig: mutate, with self.leaf.mutate(rng, rate)
\* first.
TwigMutate ==
    LeafMutate("Twig.leaf") \cup
    {Color3("Twig", "stem_color"),
     Stmt("Twig", "stem_half_width", "mutate_f64", 5, 5, 50),
     Stmt("Twig", "leaf_pairs", "mutate_usize", 0, 1, 8),
     Stmt("Twig", "leaf_angle", "mutate_f64", 150, 100, FRAC_PI_2),
     Stmt("Twig", "leaf_scale", "mutate_f64", 50, 150, 600),
     Stmt("Twig", "stem_curve", "mutate_f64", 20, 0, 200),
     Stmt("Twig", "sympodial", "flip", 0, 0, 1)}

\* What the assignment st makes of val for draws u, x and up.  A seed is
\* one of three stand-ins for the u32 values; the sympodial flag, held as 0
\* or 1, is flipped by if rng.random::<f32>() < rate.
Assigned(st, val, rate, u, x, up) ==
    CASE st.helper = "mutate_f64" ->
             mutate_f64(val, u, x, rate, st.half_range, st.min, st.max)
      [] st.helper = "mutate_f32" ->
             mutate_f32(val, u, x, rate, st.half_range, st.min, st.max)
      [] st.helper = "mutate_usize" ->
             mutate_usize(val, u, up, rate, st.min, st.max)
      [] st.helper = "mutate_seed" ->
             mutate_seed(val, u, x % 3, rate)
      [] st.helper = "flip" ->
             (IF u < rate THEN 1 - val ELSE val)

\* Each field is written by one assignment that reads only that field, so a
\* mutate call is followed one field at a time: gen_in names the field,
\* its starting value and the rate, gen_out holds its current value.  A
\* field starts at an end or the middle of its range; the rates are
\* negative, 0, 0.5, 1 and above 1.
MutateInit ==
    /\ SchedInit
    /\ AuxInit
    /\ gen_in \in UNION {{[fn |-> "mutate", stmt |-> st, start |-> v, rate |-> r] :
                              v \in {st.min, (st.min + st.max) \div 2, st.max},
                              r \in {-1000, 0, 500, 1000, 2000}} :
                         st \in BarkMutate \cup RockMutate \cup GroundMutate
                                    \cup LeafMutate("Leaf") \cup TwigMutate}
    /\ gen_out = [val |-> gen_in.start, calls |-> 0]

\* config.mutate(rng, rate), as it acts on the field of gen_in; the draws
\* of rng.random::<f32>() and rng.random::<f64>() are in [0, 1).
MutateCall ==
    /\ gen_in # NoCall
    /\ gen_in.fn = "mutate"
    /\ gen_out.calls < MaxMutations
    /\ \E u \in {0, 250, 500, 750, 999}, x \in {0, 250, 500, 750, 999}, up \in BOOLEAN :
          gen_out' = [val |-> Assigned(gen_in.stmt, gen_out.val, gen_in.rate, u, x, up),
                      calls |-> gen_out.calls + 1]
    /\ UNCHANGED <<sched_vars, gen_in, aux_vars>>

MutateSpec == MutateInit /\ [][MutateCall]_vars

(* ============================== properties ============================ *)

\* The requests in the pool's queue.
Queued == {queue[i] : i \in 1 .. Len(queue)}

\* C1: in every interleaving of submissions, drops and polls at most
\* MAX_GENERATION_THREADS jobs execute at once, and every job that has not
\* been taken by a worker is waiting in the pool's queue.
C1_ConcurrencyBound ==
    /\ Cardinality(Executing) <= 4
    /\ Queued = {r \in Reqs : job[r] = "queued"}
    /\ Len(queue) = Cardinality(Queued)

\* Four jobs execute while a further submitted job waits in the queue.
C1_Witness ==
    /\ Cardinality(Executing) = 4
    /\ queue # <<>>

\* C6: every generator returns ZeroDimension when a side is 0 (whatever the
\* other side), otherwise DimensionTooLarge when a side exceeds 4096,
\* otherwise a TextureMap; an error carries no buffer.
C6_DimensionValidation ==
    gen_out # NoCall =>
        LET w == gen_in.width
            h == gen_in.height
        IN  /\ (w = 0 \/ h = 0) => gen_out.tag = "ZeroDimension"
            /\ (w # 0 /\ h # 0 /\ (w > 4096 \/ h > 4096)) =>
                   gen_out.tag = "DimensionTooLarge"
            /\ (w \in 1 .. 4096 /\ h \in 1 .. 4096) => gen_out.tag = "Ok"
            /\ gen_out.tag # "Ok" =>
                   DOMAIN gen_out \cap {"albedo", "normal", "roughness"} = {}

\* A call with a zero side and the other side above MAX_DIMENSION has
\* returned ZeroDimension.
C6_Witness ==
    /\ gen_out # NoCall
    /\ gen_in.width = 0
    /\ gen_in.height = 4097
    /\ gen_out.tag = "ZeroDimension"

\* C7: a successful generate returns three buffers of width*height*4 bytes
\* each and the requested width and height.
C7_BufferShape ==
    (gen_out # NoCall /\ gen_out.tag = "Ok") =>
        /\ gen_out.albedo = gen_in.width * gen_in.height * 4
        /\ gen_out.normal = gen_in.width * gen_in.height * 4
        /\ gen_out.roughness = gen_in.width * gen_in.height * 4
        /\ gen_out.width = gen_in.width
        /\ gen_out.height = gen_in.height

\* A non-square twig texture has been generated.
C7_Witness ==
    /\ gen_in # NoCall
    /\ gen_in.kind = "Twig"
    /\ gen_in.width = 3
    /\ gen_in.height = 2
    /\ gen_out # NoCall
    /\ gen_out.tag = "Ok"

\* What generate returns for request r.
Result(r) == generate(req[r].kind, req[r].width, req[r].height)

\* The handle of r was dropped and the job has not passed its flag test.
DroppedUnstarted(r) == handle[r] = "dropped" /\ job[r] \in {"queued", "skipped"}

\* Synthesis never ran for r, nothing is on its channel and nothing was
\* delivered for it.
NothingDelivered(r) ==
    /\ runs[r] = 0
    /\ chan[r] = <<>>
    /\ ready[r] = NoReady
    /\ log[r] = <<>>

\* C2: a request whose handle was dropped before its job tested the flag
\* never enters synthesis: the job stays queued or is skipped, nothing is
\* sent and nothing is delivered through poll.
C2_CancelledBeforeStart ==
    [][\A r \in Reqs :
          /\ DroppedUnstarted(r) => DroppedUnstarted(r)'
          /\ DroppedUnstarted(r)' => NothingDelivered(r)']_vars

\* A job found its flag set and returned while another request was served.
C2_Witness ==
    \E r \in Reqs : /\ handle[r] = "dropped"
                    /\ job[r] = "skipped"
                    /\ runs[r] = 0

\* The fields of request r that a poll pass may change.
PollView(r) == <<handle[r], chan[r], ready[r], cancelled[r], log[r]>>

\* C3: poll_texture_tasks can always run to its end, whatever the channels
\* hold, and a pass leaves a request whose channel is empty as it was.
C3_PollNeverBlocks ==
    /\ ~aborted => ENABLED poll_texture_tasks
    /\ ~ENABLED (/\ poll_texture_tasks
                 /\ \E r \in Pending : /\ try_recv(r) = Empty
                                       /\ PollView(r)' # PollView(r))

\* A pass promoted a later request while an earlier one, visited in the
\* same pass with an empty channel, is still pending.
C3_Witness ==
    \E r1, r2 \in Reqs : /\ r2 < r1
                         /\ ready[r1] # NoReady
                         /\ handle[r2] = "pending"
                         /\ try_recv(r2) = Empty

\* C4: a pass that finds an Ok map attaches TextureReady with the handles
\* of that map and removes PendingTexture in the same step; TextureReady
\* changes in no other way.
C4_PromotionOnSuccess ==
    [][/\ poll_texture_tasks =>
            \A r \in Pending : try_recv(r).tag = "Ok" =>
                /\ handle'[r] = "removed"
                /\ ready'[r].tag = "TextureReady"
                /\ ready'[r].handles.albedo.base_len = try_recv(r).albedo
                /\ ready'[r].handles.normal.base_len = try_recv(r).normal
                /\ ready'[r].handles.roughness.base_len = try_recv(r).roughness
       /\ \A r \in Reqs : ready'[r] # ready[r] =>
                /\ ready[r] = NoReady
                /\ handle[r] = "pending"
                /\ chan[r] # <<>>
                /\ Head(chan[r]).tag = "Ok"
                /\ handle'[r] = "removed"
       /\ \A r \in Reqs' \ Reqs : ready'[r] = NoReady]_vars

\* A 2x1 map was uploaded and its entity promoted.
C4_Witness ==
    \E r \in Reqs : /\ ready[r] # NoReady
                    /\ ready[r].handles.albedo.base_len = 8
                    /\ handle[r] = "removed"

\* C5: after a worker failed in one request the failure shows as that
\* request's disconnected channel, is reported once with the handle
\* released, and every other request can still start, finish and be
\* delivered.
C5_WorkerFailureIsolated ==
    \A r \in Reqs : job[r] = "panicked" =>
        /\ handle[r] = "pending" => try_recv(r) = Disconnected
        /\ Len(log[r]) <= 1
        /\ log[r] # <<>> => handle[r] = "removed"
        /\ \A s \in Reqs \ {r} :
              /\ job[s] = "running" => ENABLED JobFinish(s)
              /\ (job[s] = "queued" /\ s = Head(queue) /\ WorkerFree) => ENABLED JobStart(s)
              /\ (handle[s] = "pending" /\ chan[s] # <<>>) => ENABLED poll_texture_tasks

\* C8: a value is on a request's channel, and a result was taken by poll,
\* only when that request's closure has finished its one run of generate;
\* the value is what generate returned.
C8_ResultAfterSynthesis ==
    \A r \in Reqs :
        /\ chan[r] # <<>> => /\ job[r] = "done"
                             /\ runs[r] = 1
                             /\ chan[r] = <<Result(r)>>
        /\ (ready[r] # NoReady \/ log[r] = <<"Texture generation failed">>) =>
               /\ job[r] = "done"
               /\ runs[r] = 1

\* Poll has taken the map of a finished job.
C8_Witness ==
    \E r \in Reqs : /\ ready[r] # NoReady
                    /\ job[r] = "done"
                    /\ runs[r] = 1
                    /\ chan[r] = <<>>

\* The address mode the claim gives a constructor.
ModeOf(kind) == IF kind \in {"Leaf", "Twig"} THEN "ClampToEdge" ELSE "Repeat"

\* C9: is_card is set by the constructor (true for leaf and twig only) and
\* never changes; the uploaded albedo, normal and roughness images all have
\* ClampToEdge on both axes for leaf and twig, Repeat for bark, rock and
\* ground.
C9_SamplerByConstructor ==
    [][\A r \in Reqs' :
          /\ is_card'[r] = (req'[r].kind \in {"Leaf", "Twig"})
          /\ r \in Reqs => (is_card'[r] = is_card[r] /\ req'[r] = req[r])
          /\ ready'[r] # NoReady =>
                \A img \in {"albedo", "normal", "roughness"} :
                    /\ ready'[r].handles[img].address_mode_u = ModeOf(req'[r].kind)
                    /\ ready'[r].handles[img].address_mode_v = ModeOf(req'[r].kind)]_vars

\* A twig request and a rock request have both been uploaded.
C9_Witness ==
    \E r1, r2 \in Reqs : /\ req[r1].kind = "Twig"
                         /\ ready[r1] # NoReady
                         /\ req[r2].kind = "Rock"
                         /\ ready[r2] # NoReady

\* Request r has failed: its worker panicked, or generate returned an error.
Failed(r) == job[r] = "panicked" \/ (job[r] = "done" /\ Result(r).tag # "Ok")

\* C10: a pass that finds a dimension error or a disconnected channel
\* removes PendingTexture, logs once and attaches nothing; a failed request
\* never has TextureReady, its job is never queued or run again, and a
\* handle once gone does not come back.
C10_FailedYieldsNoTexture ==
    [][\A r \in Reqs :
          /\ (poll_texture_tasks /\ r \in Pending /\ try_recv(r).tag \notin {"Ok", "Empty"}) =>
                /\ handle'[r] = "removed"
                /\ ready'[r] = NoReady
                /\ Len(log'[r]) = 1
          /\ Failed(r)' => ready'[r] = NoReady
          /\ job[r] \in {"done", "panicked"} =>
                /\ job'[r] = job[r]
                /\ runs'[r] = 1
                /\ r \notin Queued'
          /\ handle[r] # "pending" => handle'[r] = handle[r]]_vars

\* One request was removed for a dimension error and another for a dead
\* worker, neither with a texture.
C10_Witness ==
    \E r1, r2 \in Reqs : /\ log[r1] = <<"Texture generation failed">>
                         /\ log[r2] = <<"Texture generation thread panicked">>
                         /\ handle[r1] = "removed"
                         /\ handle[r2] = "removed"
                         /\ ready[r1] = NoReady
                         /\ ready[r2] = NoReady

RECURSIVE Chain(_, _)
\* The level sizes the claim gives a w x h base: each side d becomes
\* max(d, 2) / 2 while a side exceeds 1.
Chain(w, h) ==
    IF w > 1 \/ h > 1
    THEN <<<<w, h>>>> \o Chain((IF w > 2 THEN w ELSE 2) \div 2,
                               (IF h > 2 THEN h ELSE 2) \div 2)
    ELSE <<<<w, h>>>>

RECURSIVE ChainBytes(_)
\* The sum of level_w * level_h * 4 over a sequence of level sizes.
ChainBytes(levels) ==
    IF levels = <<>> THEN 0
    ELSE levels[1][1] * levels[1][2] * 4 + ChainBytes(Tail(levels))

\* C11: generate_mipmaps walks the chain of halved sizes and stops: after
\* each pass the level count indexes the current size in that finite chain
\* (so the loop makes fewer passes than the chain has levels), the buffer is
\* as long as the levels built so far, its first w*h*4 bytes are the base
\* image, and on return the count is the number of levels, the last of
\* them 1x1.
C11_MipChain ==
    mip # NoCall =>
        LET chain == Chain(mip.base_width, mip.base_height)
            k == mip.mip_level_count
        IN  /\ k \in 1 .. Len(chain)
            /\ chain[k] = <<mip.current_width, mip.current_height>>
            /\ Len(mip.data) = ChainBytes(SubSeq(chain, 1, k))
            /\ SubSeq(mip.data, 1, mip.base_width * mip.base_height * 4) = mip.base
            /\ Len(mip.base) = mip.base_width * mip.base_height * 4
            /\ mip.pc = "done" => /\ k = Len(chain)
                                  /\ chain[k] = <<1, 1>>
                                  /\ Len(mip.data) = ChainBytes(chain)

\* The chain of a 4x3 base was built: 4x3, 2x1, 1x1.
C11_Witness ==
    /\ mip # NoCall
    /\ mip.pc = "done"
    /\ mip.base_width = 4
    /\ mip.base_height = 3
    /\ mip.mip_level_count = 3
    /\ Len(mip.data) = 60

\* The base image of the call holds one RGBA value in every texel.
UniformBase ==
    \A i \in 1 .. Len(mip.base) : mip.base[i] = mip.base[((i - 1) % 4) + 1]

\* C12: in Linear and Srgb mode every byte of every level built from a
\* uniform base image is within 1 of the base's byte for that channel.
C12_UniformMipsStayUniform ==
    (mip # NoCall /\ mip.mode \in {"Linear", "Srgb"} /\ UniformBase) =>
        \A i \in 1 .. Len(mip.data) :
            LET d == mip.data[i] - mip.base[((i - 1) % 4) + 1]
            IN  d \in -1 .. 1

\* The chain of a uniform dark 3x4 sRGB image, whose edge blocks hold fewer
\* than four texels, was built.
C12_Witness ==
    /\ mip # NoCall
    /\ mip.pc = "done"
    /\ mip.mode = "Srgb"
    /\ UniformBase
    /\ mip.base_width = 3
    /\ mip.base_height = 4
    /\ mip.base[1] = 5
    /\ mip.data[Len(mip.data) - 3] = 5

\* C13: in Normal mode every texel of every level past the base decodes to
\* a vector whose length is within 0.01 of 1, and has alpha 255.
C13_NormalMipsUnitLength ==
    (mip # NoCall /\ mip.mode = "Normal") =>
        \A p \in mip.base_width * mip.base_height .. (Len(mip.data) \div 4) - 1 :
            LET px == SrcPixel(mip.data, p * 4)
                len2 == decode(px[1]) * decode(px[1]) + decode(px[2]) * decode(px[2])
                        + decode(px[3]) * decode(px[3])
            IN  /\ 25245 * 25245 <= 10000 * len2
                /\ 10000 * len2 <= 25755 * 25755
                /\ px[4] = 255

C16_CooperativeCancellation ==
    [][\A r \in Reqs :
          /\ DropHandle(r) => /\ cancelled'[r]
                              /\ job'[r] = job[r]
                              /\ runs'[r] = runs[r]
          /\ (job[r] = "running" /\ handle[r] = "dropped" /\ ~aborted) =>
                ENABLED JobFinish(r)
          /\ (JobFinish(r) /\ handle[r] = "dropped") =>
                /\ job'[r] = "done"
                /\ chan'[r] = <<>>
                /\ ready'[r] = NoReady
                /\ log'[r] = log[r]
          /\ (r \in Occupied /\ r \notin Occupied') =>
                (job[r] = "running" /\ job'[r] = "done")]_vars

\* A job is inside f() with its flag set and its handle dropped.
C16_Witness ==
    \E r \in Reqs : /\ job[r] = "running"
                    /\ handle[r] = "dropped"
                    /\ cancelled[r]

\* C17: with a free worker taking queued jobs, every synthesis call
\* returning and poll running again and again, every pending request
\* eventually leaves the pending state: dropped by its owner, completed with
\* TextureReady, or removed with a logged failure.
C17_EveryRequestLeavesPending ==
    \A r \in 1 .. PoolReqs :
        (r \in Reqs /\ handle[r] = "pending")
            ~> (r \in Reqs /\ \/ handle[r] = "dropped"
                              \/ handle[r] = "removed" /\ ready[r] # NoReady
                              \/ handle[r] = "removed" /\ log[r] # <<>>)

\* The last request, submitted behind a full pool, was completed after jobs
\* ahead of it were cancelled before starting.
C17_Witness ==
    /\ Len(req) = PoolReqs
    /\ ready[PoolReqs] # NoReady
    /\ Cardinality({r \in Reqs : job[r] = "skipped"}) >= 2

\* C18: no pool exists before a thread has called gen_pool(); at most one
\* pool is ever built, with MAX_GENERATION_THREADS threads, also when
\* several threads race through their first spawn_task; once built it
\* stays the value of the cell; and every closure is spawned on it.
C18_OnePoolForTheProcess ==
    /\ (\A t \in Threads : once.thr[t].pc = "idle" /\ once.thr[t].spawned = <<>>)
          => (once.built = <<>> /\ POOL = "uninit")
    /\ Len(once.built) <= 1
    /\ \A i \in 1 .. Len(once.built) :
          once.built[i].num_threads = MAX_GENERATION_THREADS
    /\ once.built # <<>> <=> POOL = "built"
    /\ once.value = Len(once.built)
    /\ \A t \in Threads :
          /\ once.thr[t].pc = "spawn" => once.thr[t].pool = 1
          /\ \A i \in 1 .. Len(once.thr[t].spawned) : once.thr[t].spawned[i] = 1

\* The first submissions of two threads overlap: one thread has built the
\* pool and not yet spawned on it, the other is inside get_or_init.
C18_Witness ==
    /\ Len(once.built) = 1
    /\ \E t, u \in Threads :
          /\ t # u
          /\ once.thr[t].pc = "spawn" /\ once.thr[t].spawned = <<>>
          /\ once.thr[u].pc = "get_or_init" /\ once.thr[u].spawned = <<>>

\* C19: a generate call that returned a TextureMap derived its normal map
\* with Clamp after dilating the heights when the generator is Leaf or
\* Twig, and with Wrap and no dilation when it is Bark, Rock or Ground.
C19_BoundaryModePerGenerator ==
    (gen_in # NoCall /\ gen_out # NoCall /\ gen_out.tag = "Ok") =>
        normal_pass(gen_in.kind) =
            IF gen_in.kind \in {"Leaf", "Twig"}
            THEN NormalPass(TRUE, "Clamp")
            ELSE NormalPass(FALSE, "Wrap")

\* The last attachment is the terminal leaf, at leaf_scale * 0.72, and no
\* other attachment is: the others are at leaf_scale.
TerminalLast(c, atts) ==
    /\ atts # <<>>
    /\ atts[Len(atts)].attach_v.at = "term_v"
    /\ atts[Len(atts)].angle = [side |-> 0, pi |-> 1]
    /\ atts[Len(atts)].scale * 100 = c.leaf_scale * SCALE_DEN * 72
    /\ \A k \in 1 .. Len(atts) - 1 :
          /\ atts[k].attach_v.at = "lat"
          /\ atts[k].angle.pi = 0
          /\ atts[k].scale = c.leaf_scale * SCALE_DEN

\* Monopodial: two mirrored leaves per node; sympodial: one leaf per node,
\* sides alternating from the positive side.
Sides(c, atts) ==
    IF c.sympodial
    THEN \A k \in 1 .. Len(atts) - 1 :
            atts[k].angle.side = (IF k % 2 = 1 THEN 1 ELSE -1)
    ELSE \A k \in 1 .. Len(atts) - 1 :
            /\ atts[k].angle.side = (IF k % 2 = 1 THEN 1 ELSE -1)
            /\ k % 2 = 1 => /\ k + 1 <= Len(atts) - 1
                            /\ atts[k + 1].attach_v = atts[k].attach_v

C21_StartInSubmissionOrder ==
    [][/\ \A i, j \in 1 .. Len(queue) : i < j => queue[i] < queue[j]
       /\ Len(req') > Len(req) =>
             /\ job'[Len(req')] = "queued"
             /\ queue' = Append(queue, Len(req'))
       /\ \A r \in Reqs :
             (job[r] = "queued" /\ job'[r] # "queued") =>
                 \A q \in Reqs : (job[q] = "queued" /\ q # r) => r < q]_vars

\* The pool is full, the first job that waited behind it has been started
\* and the next one still waits.
C21_Witness ==
    /\ Len(req) >= MAX_GENERATION_THREADS + 2
    /\ Cardinality(Executing) = MAX_GENERATION_THREADS
    /\ job[MAX_GENERATION_THREADS + 1] = "running"
    /\ job[MAX_GENERATION_THREADS + 2] = "queued"

\* A finished height_to_normal call.
NormalDone ==
    /\ gen_in # NoCall
    /\ gen_out # NoCall
    /\ "fn" \in DOMAIN gen_in
    /\ gen_in.fn = "height_to_normal"

\* The neighbours of coordinate x on an axis of n texels are inside the
\* axis; in Wrap mode they are x - 1 and x + 1 modulo n, in Clamp mode
\* x - 1 and x + 1 clamped to 0 .. n - 1.
NeighboursInside(x, n, lo, hi, boundary) ==
    /\ lo \in 0 .. n - 1
    /\ hi \in 0 .. n - 1
    /\ boundary = "Wrap" => (lo = (x + n - 1) % n /\ hi = (x + 1) % n)
    /\ boundary = "Clamp" =>
          /\ lo = (IF x = 0 THEN 0 ELSE x - 1)
          /\ hi = (IF x = n - 1 THEN n - 1 ELSE x + 1)

\* The distance between the two sampled neighbours: from x - 1 to x + 1
\* around the torus in Wrap mode, between the clamped indices in Clamp
\* mode.
Spacing(x, lo, hi, boundary) ==
    IF boundary = "Wrap" THEN (x + 1) - (x - 1) ELSE hi - lo

\* The divisor the claim names: 2 in Wrap mode; in Clamp mode 2 in the
\* interior and 1 at an edge.
ClaimedDivisor(x, n, boundary) ==
    IF boundary = "Wrap" THEN 2
    ELSE IF x = 0 \/ x = n - 1 THEN 1 ELSE 2

\* C22 as stated: at every texel the neighbour indices are inside the
\* image and each divisor is the spacing of the two sampled neighbours: 2
\* in Wrap mode, 2 in the interior and 1 at an edge in Clamp mode.
C22_DivisorIsSpacing_Original ==
    NormalDone =>
        \A x \in 0 .. gen_in.width - 1 : \A y \in 0 .. gen_in.height - 1 :
            LET w == gen_in.width
                h == gen_in.height
                b == gen_in.boundary
                nb == Neighbours(x, y, w, h, b)
                g == gradient(gen_in.heights, w, h, gen_in.strength, b, x, y)
            IN  /\ NeighboursInside(x, w, nb[1], nb[2], b)
                /\ NeighboursInside(y, h, nb[3], nb[4], b)
                /\ g.x_dist = ClaimedDivisor(x, w, b)
                /\ g.y_dist = ClaimedDivisor(y, h, b)
                /\ g.x_dist = Spacing(x, nb[1], nb[2], b)
                /\ g.y_dist = Spacing(y, nb[3], nb[4], b)

\* C22: at every texel the neighbour indices are inside the image; the
\* divisor is 2 in Wrap mode, and in Clamp mode 2 in the interior and 1 at
\* an edge; it is the spacing of the two sampled neighbours except in Clamp
\* mode on an axis of one texel, where both neighbours are the texel itself
\* (spacing 0), the divisor is 1 and the difference divided is 0.
C22_DivisorIsSpacing ==
    NormalDone =>
        \A x \in 0 .. gen_in.width - 1 : \A y \in 0 .. gen_in.height - 1 :
            LET w == gen_in.width
                h == gen_in.height
                b == gen_in.boundary
                nb == Neighbours(x, y, w, h, b)
                g == gradient(gen_in.heights, w, h, gen_in.strength, b, x, y)
            IN  /\ NeighboursInside(x, w, nb[1], nb[2], b)
                /\ NeighboursInside(y, h, nb[3], nb[4], b)
                /\ g.x_dist = ClaimedDivisor(x, w, b)
                /\ g.y_dist = ClaimedDivisor(y, h, b)
                /\ IF b = "Clamp" /\ w = 1
                   THEN Spacing(x, nb[1], nb[2], b) = 0 /\ g.x_dist = 1 /\ g.dx = 0
                   ELSE g.x_dist = Spacing(x, nb[1], nb[2], b)
                /\ IF b = "Clamp" /\ h = 1
                   THEN Spacing(y, nb[3], nb[4], b) = 0 /\ g.y_dist = 1 /\ g.dy = 0
                   ELSE g.y_dist = Spacing(y, nb[3], nb[4], b)

\* A 3x1 slope was converted in Clamp mode: the first texel divides its
\* one-sided difference by 1, the middle texel its central difference by
\* 2, and the one row divides a zero difference by 1.
C22_Witness ==
    /\ NormalDone
    /\ gen_in.boundary = "Clamp"
    /\ gen_in.width = 3
    /\ gen_in.height = 1
    /\ gen_in.heights = <<0, 1, 2>>
    /\ gradient(gen_in.heights, 3, 1, gen_in.strength, "Clamp", 0, 0).x_dist = 1
    /\ gradient(gen_in.heights, 3, 1, gen_in.strength, "Clamp", 1, 0).x_dist = 2
    /\ gradient(gen_in.heights, 3, 1, gen_in.strength, "Clamp", 1, 0).y_dist = 1
    /\ gen_out[1] # 128

\* The 4-neighbours of pixel (x, y) that are inside the image and opaque.
Opaque4(x, y) ==
    {<<nx, ny>> \in (0 .. gen_in.w - 1) \X (0 .. gen_in.h - 1) :
        /\ (nx - x) * (nx - x) + (ny - y) * (ny - y) = 1
        /\ gen_in.alpha[ny * gen_in.w + nx + 1] # 0}

RECURSIVE OriginalSum(_)
\* The sum of the original heights at the pixels in set.
OriginalSum(set) ==
    IF set = {} THEN 0
    ELSE LET p == CHOOSE q \in set : TRUE
         IN  gen_in.heights[p[2] * gen_in.w + p[1] + 1] + OriginalSum(set \ {p})

\* What the claim gives pixel (x, y): the mean of the original heights of
\* its opaque 4-neighbours when it is transparent and has one, its own
\* original height otherwise.
Dilated(x, y) ==
    LET i == y * gen_in.w + x + 1
        nbs == Opaque4(x, y)
    IN  IF gen_in.alpha[i] = 0 /\ nbs # {}
        THEN <<OriginalSum(nbs), Cardinality(nbs)>>
        ELSE <<gen_in.heights[i], 1>>

\* C23: while dilate_heights runs, heights still holds the original
\* values, every pixel already visited has in dilated the value the claim
\* gives it and every other pixel its original height; on return heights
\* holds the claimed value at every pixel, a function of the original
\* heights and the mask alone.
C23_DilationFromOriginals ==
    (gen_in # NoCall /\ gen_out # NoCall /\ gen_in.fn = "dilate_heights") =>
        /\ gen_out.pc = "loop" => gen_out.heights = gen_in.heights
        /\ \A x \in 0 .. gen_in.w - 1 : \A y \in 0 .. gen_in.h - 1 :
              LET i == y * gen_in.w + x + 1
                  d == Dilated(x, y)
              IN  /\ i <= gen_out.idx => gen_out.dilated[i] * d[2] = d[1]
                  /\ i > gen_out.idx => gen_out.dilated[i] = gen_in.heights[i]
                  /\ gen_out.pc = "done" => gen_out.heights[i] * d[2] = d[1]

\* A 3x3 card whose centre column is opaque was dilated: the transparent
\* pixel left of the centre took the height of the centre, and the
\* transparent corner pixel took the height of the pixel beside it.
C23_Witness ==
    /\ gen_in # NoCall
    /\ gen_out # NoCall
    /\ gen_in.fn = "dilate_heights"
    /\ gen_out.pc = "done"
    /\ gen_in.w = 3
    /\ gen_in.h = 3
    /\ gen_in.alpha = <<0, 255, 0, 0, 255, 0, 0, 255, 255>>
    /\ gen_in.heights[5] # gen_in.heights[4]
    /\ gen_out.heights[4] = gen_in.heights[5]
    /\ gen_out.heights[6] * 2 = gen_in.heights[5] + gen_in.heights[9]
    /\ gen_out.heights[5] = gen_in.heights[5]

\* The attachments whose leaf sample covers the pixel.
Covering == {k \in 1 .. Len(gen_in.atts) :
                gen_in.atts[k].card /\ gen_in.atts[k].sample.tag = "Some"}

\* The first of them in list order.
FirstCovering == CHOOSE k \in Covering : \A j \in Covering : k <= j

\* C24: alpha is 0 or 255 throughout; a finished pixel inside the stem is
\* opaque with the stem's height and no leaf was sampled for it; outside
\* the stem it has the height of the first attachment in list order whose
\* sample covers it, no later attachment having been sampled; with no such
\* attachment it is transparent with height 0.5.
C24_PixelPriority ==
    (gen_in # NoCall /\ gen_out # NoCall /\ gen_in.fn = "twig_pixel") =>
        /\ gen_out.alpha \in {0, 255}
        /\ gen_out.pc = "done" =>
              IF gen_in.stem.inside
              THEN /\ gen_out.alpha = 255
                   /\ gen_out.height * 100 = gen_in.stem.t * 60
                   /\ gen_out.sampled = <<>>
              ELSE IF Covering # {}
                   THEN /\ gen_out.alpha = 255
                        /\ gen_out.height = gen_in.atts[FirstCovering].sample.height
                        /\ gen_out.sampled # <<>>
                        /\ gen_out.sampled[Len(gen_out.sampled)] = FirstCovering
                        /\ \A i \in 1 .. Len(gen_out.sampled) :
                              gen_out.sampled[i] <= FirstCovering
                   ELSE /\ gen_out.alpha = 0
                        /\ gen_out.height = 50

\* A pixel outside the stem is covered by the second and the third
\* attachment, with different heights: it has the height of the second.
C24_Witness ==
    /\ gen_in # NoCall
    /\ gen_out # NoCall
    /\ gen_in.fn = "twig_pixel"
    /\ gen_out.pc = "done"
    /\ ~gen_in.stem.inside
    /\ Len(gen_in.atts) = 3
    /\ gen_in.atts[1] = [card |-> TRUE, sample |-> NoSample]
    /\ gen_in.atts[2] = [card |-> TRUE, sample |-> SomeSample(20)]
    /\ gen_in.atts[3] = [card |-> TRUE, sample |-> SomeSample(80)]
    /\ gen_out.height = 20
    /\ gen_out.sampled = <<1, 2>>

\* A pass of the while loop is about to run.
MipPass == mip # NoCall /\ mip.pc = "loop"
               /\ (mip.current_width > 1 \/ mip.current_height > 1)

\* C25: after the first pass, level 1 is what the pass computes from the
\* base region alone; when the base has an odd width (height), the source
\* blocks of the last destination column (row) were cut at the image
\* boundary and held 1 or 2 texels, the last source column (row) among
\* them.
C25_OddEdgeBlocksClamped ==
    (mip # NoCall /\ mip.mip_level_count = 2) =>
        LET m0 == MipCall(mip.base, mip.base_width, mip.base_height, mip.mode)
            cw == m0.current_width
            ch == m0.current_height
            nw == next_dim(cw)
            nh == next_dim(ch)
            Col(i) == (i \div 4) % cw
            Row(i) == (i \div 4) \div cw
        IN  /\ SubSeq(mip.data, mip.prev_offset + 1, Len(mip.data)) = Level(m0)
            /\ \A x \in 0 .. nw - 1 : \A y \in 0 .. nh - 1 :
                  \A k \in 1 .. Len(BlockIdx(m0, x, y)) :
                      BlockIdx(m0, x, y)[k] + 3 < Len(mip.base)
            /\ cw % 2 = 1 =>
                  \A y \in 0 .. nh - 1 :
                      LET idx == BlockIdx(m0, nw - 1, y)
                      IN  /\ Len(idx) \in {1, 2}
                          /\ \E k \in 1 .. Len(idx) : Col(idx[k]) = cw - 1
            /\ ch % 2 = 1 =>
                  \A x \in 0 .. nw - 1 :
                      LET idx == BlockIdx(m0, x, nh - 1)
                      IN  /\ Len(idx) \in {1, 2}
                          /\ \E k \in 1 .. Len(idx) : Row(idx[k]) = ch - 1

\* C30: in every pass, for every destination texel, the source block holds
\* at least one texel, each texel read lies in the preceding level's region
\* (from prev_offset to the end of data), each texel written lies in the
\* region the resize appends, distinct destination texels are written at
\* distinct places, and the two regions do not overlap.
C30_MipIndicesInRegion ==
    MipPass =>
        LET cw == mip.current_width
            ch == mip.current_height
            nw == next_dim(cw)
            nh == next_dim(ch)
            next_offset == Len(mip.data)
            new_len == next_offset + nw * nh * 4
        IN  /\ mip.prev_offset + cw * ch * 4 = next_offset
            /\ nw >= 1 /\ nh >= 1
            /\ \A x \in 0 .. nw - 1 : \A y \in 0 .. nh - 1 :
                  LET idx == BlockIdx(mip, x, y)
                      dst == DstIdx(mip, x, y)
                  IN  /\ Len(idx) \in 1 .. 4
                      /\ \A k \in 1 .. Len(idx) :
                            /\ idx[k] >= mip.prev_offset
                            /\ idx[k] + 3 < next_offset
                      /\ \A j, k \in 1 .. Len(idx) : j # k => idx[j] # idx[k]
                      /\ dst >= next_offset
                      /\ dst + 3 < new_len
                      /\ \A x2 \in 0 .. nw - 1 : \A y2 \in 0 .. nh - 1 :
                            (<<x2, y2>> # <<x, y>>) =>
                                (DstIdx(mip, x2, y2) >= dst + 4
                                 \/ DstIdx(mip, x2, y2) + 4 <= dst)
            /\ Len(Level(mip)) = nw * nh * 4

\* The second pass over a 4x3 base: the 2x1 level at offset 48 is read,
\* its one block holds two texels, and the 1x1 level is written at 56.
C30_Witness ==
    /\ MipPass
    /\ mip.base_width = 4
    /\ mip.base_height = 3
    /\ mip.prev_offset = 48
    /\ Len(mip.data) = 56
    /\ BlockIdx(mip, 0, 0) = <<48, 52>>
    /\ DstIdx(mip, 0, 0) = 56

\* C26: after any number of mutate calls at any rate, a field that started
\* inside its range is inside it; at rate 0 it has its starting value.
C26_MutateStaysInRange ==
    (gen_in # NoCall /\ gen_in.fn = "mutate") =>
        /\ gen_out.val >= gen_in.stmt.min
        /\ gen_out.val <= gen_in.stmt.max
        /\ (gen_in.rate = 0 => gen_out.val = gen_in.start)

\* TwigConfig.leaf_pairs, started at 1 and mutated three times at rate 1,
\* is still 1: a decrement was held at the lower end of 1 .. 8.
C26_Witness ==
    /\ gen_in # NoCall
    /\ gen_in.fn = "mutate"
    /\ gen_in.stmt = Stmt("Twig", "leaf_pairs", "mutate_usize", 0, 1, 8)
    /\ gen_in.rate = 1000
    /\ gen_in.start = 1
    /\ gen_out.calls = 3
    /\ gen_out.val = 1

\* C27: a channel never holds more than one message, a closure calls
\* generate (and so sends) at most once, and a job inside f() never finds
\* its channel full: its send returns at once, polled or not, and the
\* workers in use are those inside f() or unwinding from it.
C27_SendNeverBlocks ==
    \A r \in Reqs :
        /\ Len(chan[r]) <= 1
        /\ runs[r] <= 1
        /\ (job[r] = "running" => ~SendBlocks(r))
        /\ (job[r] = "done" /\ ~aborted) => r \notin Occupied

\* A job has sent its result and released its worker while its handle is
\* still pending and no poll has taken the result; another job is inside
\* f().
C27_Witness ==
    \E r \in Reqs, q \in Reqs :
        /\ job[r] = "done"
        /\ Len(chan[r]) = 1
        /\ handle[r] = "pending"
        /\ ready[r] = NoReady
        /\ job[q] = "running"
        /\ Cardinality(Occupied) = 1

\* C28: over any sequence of passes a request has TextureReady attached at
\* most once (once attached it never changes) or one failure logged (once
\* logged nothing is added), never both; a request with TextureReady is
\* never logged as a panicked thread, although its Sender is gone.
C28_AtMostOneOutcome ==
    [][\A r \in Reqs :
          /\ Len(log'[r]) <= 1
          /\ ~(ready'[r] # NoReady /\ log'[r] # <<>>)
          /\ (ready[r] # NoReady => ready'[r] = ready[r] /\ handle'[r] = "removed")
          /\ (log[r] # <<>> => log'[r] = log[r] /\ handle'[r] = "removed")]_vars

\* One request was promoted, its job done and its channel empty, so a
\* further try_recv on it would return Disconnected; another was reported
\* as failed; both handles are removed.
C28_Witness ==
    \E r \in Reqs, q \in Reqs :
        /\ ready[r] # NoReady
        /\ log[r] = <<>>
        /\ job[r] = "done"
        /\ chan[r] = <<>>
        /\ handle[r] = "removed"
        /\ ready[q] = NoReady
        /\ Len(log[q]) = 1
        /\ handle[q] = "removed"

\* C29: a new request's flag is false; a flag that is set stays set; a flag
\* becomes set only in the step that drops or removes that request's
\* handle, and that step changes no job; so the flag is set exactly when
\* the handle is gone.  A queued job is skipped only with its own flag set
\* and enters f() only with it clear.  A pending handle whose channel is
\* empty with the Sender gone belongs to a job that panicked inside f(),
\* never to a skipped one.
C29_FlagOnlyByDrop ==
    [][/\ Len(req') > Len(req) => ~cancelled'[Len(req')]
       /\ \A r \in Reqs :
             /\ cancelled[r] => cancelled'[r]
             /\ (~cancelled[r] /\ cancelled'[r]) =>
                    /\ handle[r] = "pending"
                    /\ handle'[r] # "pending"
                    /\ job' = job
                    /\ queue' = queue
             /\ cancelled'[r] <=> handle'[r] # "pending"
             /\ (job[r] = "queued" /\ job'[r] = "skipped") => cancelled[r]
             /\ (job[r] = "queued" /\ job'[r] = "running") => ~cancelled[r]
             /\ (handle'[r] = "pending" /\ chan'[r] = <<>>
                     /\ job'[r] \notin {"queued", "running"}) =>
                    job'[r] = "panicked"]_vars

\* A pending request whose job panicked, so that try_recv returns
\* Disconnected on a live handle, next to a request that was dropped, has
\* its flag set and whose job was skipped.
C29_Witness ==
    \E r \in Reqs, q \in Reqs :
        /\ handle[r] = "pending"
        /\ ~cancelled[r]
        /\ try_recv(r) = Disconnected
        /\ job[r] = "panicked"
        /\ handle[q] = "dropped"
        /\ cancelled[q]
        /\ job[q] = "skipped"

====
